---- MODULE Spec2Model ----
(***************************************************************************)
(* Model of the bur-offsite backup pipeline.                               *)
(*                                                                         *)
(* Upload side: LocalBackupHandler.process_backup_list and the per-backup  *)
(* pipeline process_backup (classification of volumes, encode pool,        *)
(* transfer pool, pool callbacks, outcome check, metadata files,           *)
(* descriptors), run repeatedly over the same local backups so that runs   *)
(* resumed after a failed run are part of the state space.                 *)
(*                                                                         *)
(* Volumes and backups are numbered; V.tar on the remote is "v in          *)
(* remote_tars[b]", V.tar in the temporary folder is "v in tmp_tars[b]",   *)
(* the temporary volume directory is "v in tmp_dirs[b]".                   *)
(***************************************************************************)
EXTENDS Integers, Sequences, FiniteSets, TLC

\* ---------------------------------------------------------------- bounds
NumVolumes == 2
NumBackups == 2
MaxAttempts == 2
process_pool_size == 2
transfer_pool_size == 1

Volumes == 1..NumVolumes
Backups == 1..NumBackups

\* ------------------------------------------------------------- constants
SUCCESS_FLAG_FILE == "BACKUP_OK"
BACKUP_META_FILE == "backup.metadata"
\* gzip_file appends ".gz", encrypt_file appends ".gpg", tar_file appends ".tar"
META_ARCHIVE == "backup.metadata.gz.gpg.tar"
BUR_FILE_LIST_DESCRIPTOR_FILE_NAME == "bur_file_list_descriptor.dat"
BUR_VOLUME_LIST_DESCRIPTOR_FILE_NAME == "bur_volume_list_descriptor.dat"

\* The two orders in which os.listdir may return the top-level files.
FileOrders == { <<SUCCESS_FLAG_FILE, BACKUP_META_FILE>>,
                <<BACKUP_META_FILE, SUCCESS_FLAG_FILE>> }

\* volume_path_list of a backup: the volume directories, in listing order.
RECURSIVE UpTo(_)
UpTo(n) == IF n = 0 THEN <<>> ELSE Append(UpTo(n - 1), n)
volume_path_list == UpTo(NumVolumes)

Range(s) == { s[i] : i \in DOMAIN s }

\* A descriptor object on the remote: absent, or a pickled list.
NoDescriptor == [present |-> FALSE, content |-> <<>>]
Descriptor(list) == [present |-> TRUE, content |-> list]

\* The output field of a volume output dictionary: "" or an error message,
\* which names the volume it is about.
NoMessage == [volume |-> 0, text |-> ""]
Message(v, text) == [volume |-> v, text |-> text]

\* get_empty_volume_output: the volume output dictionary (status, output).
get_empty_volume_output(status) == [status |-> status, output |-> NoMessage]

\* backup_output_dict[key] = value
DictPut(d, key, value) == [k \in (DOMAIN d) \cup {key} |-> IF k = key THEN value ELSE d[k]]

VARIABLES
    \* off-site and temporary file systems, per backup
    remote_tars, remote_files, remote_fdesc, remote_vdesc, tmp_tars, tmp_dirs,
    \* what the file V.tar of the temporary folder holds
    tmp_tar_content,
    \* process_backup_list
    attempts, local_backup_list, pc, bidx, backup_error_list, list_result,
    \* process_backup
    file_list, uploaded_volume_name_list, volume_path_list_to_process, vi, fi,
    processed_file_name_list, process_pool, transfer_pool,
    task, volume_output, backup_output_dict,
    \* history of the current process_backup call
    class, encodes, puts, meta_puts, ok_sent, sent_after_ok,
    raised_kind, raised_msgs,
    \* history across calls
    last_ok, rerun_of_ok, remote_before, tmp_before,
    \* the free space on tmp the last disk check of process_backup read
    free_disk_space_onsite,
    \* the backups of this run for which logger.error reported that the
    \* temporary folder could not be removed
    remove_errors_logged

runVars == <<attempts, local_backup_list, remove_errors_logged>>
fsVars == <<remote_tars, remote_files, remote_fdesc, remote_vdesc, tmp_tars, tmp_dirs,
           tmp_tar_content>>
\* what a raise inside the loop of process_backup_list changes (besides pc)
raiseVars == <<bidx, backup_error_list, list_result, last_ok>>
\* the exception that ended the last attempt on a backup, if one did
errVars == <<raised_kind, raised_msgs>>
bkpVars == <<file_list, uploaded_volume_name_list, volume_path_list_to_process, vi, fi,
             processed_file_name_list>>
poolVars == <<process_pool, transfer_pool>>
taskVars == <<task, volume_output, backup_output_dict>>
histVars == <<class, encodes, puts, meta_puts, ok_sent, sent_after_ok>>
crossVars == <<rerun_of_ok, remote_before, tmp_before, free_disk_space_onsite>>

\* Download side (OffsiteBackupHandler.download_process_backup of backup 1
\* into an on-site destination folder).
VARIABLES
    \* the destination folder
    local_dirs, local_tars, local_files,
    \* download_process_backup
    downloads, customer_name, dl_pc, dl_error, dl_raised_msgs, volume_name_list, missing_volume_list, dl_vi,
    offsite_process_pool, offsite_transfer_pool,
    dl_task, dl_volume_output, offsite_backup_output_dict,
    \* history of the current download_process_backup call
    dl_class, dl_removed, classified, gets, decodes, fetches,
    \* the volumes whose V.tar process_volume extracted and could not remove
    tar_not_removed

localVars == <<local_dirs, local_tars, local_files>>
dlCtlVars == <<downloads, customer_name, dl_error, dl_raised_msgs, volume_name_list, missing_volume_list,
               dl_vi>>
dlPoolVars == <<offsite_process_pool, offsite_transfer_pool>>
dlTaskVars == <<dl_task, dl_volume_output, offsite_backup_output_dict>>
dlHistVars == <<dl_class, dl_removed, classified, gets, decodes, fetches, tar_not_removed>>
dlVars == <<localVars, dl_pc, dlCtlVars, dlPoolVars, dlTaskVars, dlHistVars>>

upVars == <<pc, runVars, raiseVars, errVars, bkpVars, poolVars, taskVars, histVars, crossVars>>

\* One call of RsyncManager.transfer_file.
VARIABLES
    \* the RsyncManager object and where its send or receive stands
    method, rsync_pc, retry, n_files, current_try,
    \* what the last rsync reported, and the exception that ended the call
    n_transferred_files, rsync_error,
    \* history of the call: rsync invocations, attempts whose count matched
    invocations, matches

rsyncVars == <<method, rsync_pc, retry, n_files, current_try, n_transferred_files, rsync_error,
               invocations, matches>>

\* One run of the off-site clean up (execute_offsite_backup_cleanup).
VARIABLES
    \* the off-site: the state of every backup directory of every customer
    \* and the time stamp of the oldest entry inside the directory of a tag
    offsite_dirs, oldest_entry,
    \* the configuration and where the run stands
    customer_config_dict, offsite_retention, cleanup_pc,
    \* get_backup_dir_list_to_cleanup: the listing, the customers the loop has
    \* still to visit, the directories queued for removal
    dir_list_by_customer_dict, customers_to_visit, dir_to_be_removed_list,
    \* what remove_remote_dir and clean_offsite_backup returned
    not_removed_list, validated_removed_list, cleanup_status, out_msg,
    \* how the driver ended
    exit_code,
    \* history: the off-site as it was when the run started
    dirs_at_start

retentionVars == <<offsite_dirs, oldest_entry, customer_config_dict, offsite_retention,
                   cleanup_pc, dir_list_by_customer_dict, customers_to_visit,
                   dir_to_be_removed_list, not_removed_list, validated_removed_list,
                   cleanup_status, out_msg, exit_code, dirs_at_start>>

\* One call of a method decorated with timer_delay.
VARIABLES
    \* the keyword arguments max_delay and on_timeout of the call
    max_delay, on_timeout_is_callable,
    \* where the wrapper stands, the seconds since the call, the Timer
    td_pc, clock, timer,
    \* the decorated method: the seconds of work it has, those it has done,
    \* what it ends with, and what the wrapper gave back to its caller
    method_duration, method_done, method_result, wrapper_result,
    \* history: the calls of the on_timeout function
    on_timeout_calls

timerVars == <<max_delay, on_timeout_is_callable, td_pc, clock, timer, method_duration,
               method_done, method_result, wrapper_result, on_timeout_calls>>

\* One run of the driver (main).
VARIABLES
    \* where main stands, and the arguments: the operation, whether a backup
    \* tag is given, the customer name ("" when none is given), and the
    \* customers of the configuration the upload has still to go through
    main_pc, script_option, has_backup_tag, customer_name_arg, customers_left,
    \* execute_backup_upload: no customer failed so far
    is_success,
    \* how the run ended, and the status the process exited with
    ended_by, sys_exit

driverVars == <<main_pc, script_option, has_backup_tag, customer_name_arg, customers_left,
                is_success,
                ended_by, sys_exit>>

\* One call of validate_number_of_processors.
VARIABLES
    \* the value of the argument (whether int() parses it, and the number it
    \* gives), multiprocessing.cpu_count(), where the call stands, its result
    num_processors_arg, available_cores, np_pc, num_processors_to_use

validatorVars == <<num_processors_arg, available_cores, np_pc, num_processors_to_use>>

\* The threads of one call of process_backup: the main thread and the
\* result-handler thread of each of the two pools.
VARIABLES
    \* the main thread: where it stands, the volumes it has submitted
    cb_main, cb_submitted,
    \* where the task of each volume is, the status in its volume_output
    cb_stage, cb_status,
    \* the callbacks that are running: pool, volume and position
    callbacks,
    \* backup_output_dict, and how often each entry has been written
    cb_output_dict, cb_writes

callbackVars == <<cb_main, cb_submitted, cb_stage, cb_status, callbacks, cb_output_dict,
                  cb_writes>>

\* One call of sort_remote_folders_by_content.
VARIABLES
    \* what each remote folder holds, the argument of the call
    folder_content, remote_folder_list,
    \* where the call stands, the list it returned, whether it raised
    sort_pc, sorted_folder_list, sort_raised

sortVars == <<folder_content, remote_folder_list, sort_pc, sorted_folder_list, sort_raised>>

\* The backups process_backup_list finds on-site and goes through.
VARIABLES
    \* os.listdir of the customer's backup path, and for every entry what it
    \* is and its modification time
    customer_tags, entry_kind, entry_mtime,
    \* the backup_tag argument (0 stands for None), where the call stands
    tag_argument, list_pc,
    \* the list the loop goes through, the backups it has gone through, the
    \* backups that failed, the exception that ended the call
    valid_onsite_backups_list, processed_backups, failed_backups, list_raised

listVars == <<customer_tags, entry_kind, entry_mtime, tag_argument, list_pc,
              valid_onsite_backups_list, processed_backups, failed_backups, list_raised>>

\* One call of execute_download_backup_from_offsite up to the call of
\* download_process_backup.
VARIABLES
    \* the off-site: the backup directories of every customer as `ls -dt`
    \* lists them, and whether the ssh command that lists them answers
    offsite_listing, listing_answered,
    \* the arguments customer_name and backup_tag
    customer_name_query, backup_tag_query,
    \* where the call stands, the exception that ended it
    resolve_pc, resolve_error,
    \* what find_elem_dict returned
    resolved_customer_name, backup_path_to_be_retrieved

lookupVars == <<offsite_listing, listing_answered, customer_name_query, backup_tag_query,
                resolve_pc, resolve_error, resolved_customer_name,
                backup_path_to_be_retrieved>>

\* One call of run_ssh_command: the calling thread, the ssh process and the
\* thread of the Timer.
VARIABLES
    \* the arguments: host or command is blank, the timeout; the time the
    \* remote command takes
    ssh_blank, ssh_timeout, command_duration,
    \* where the calling thread stands, the time since Popen
    ssh_pc, ssh_clock,
    \* the ssh process, the thread of the Timer
    ssh_process, ssh_timer,
    \* what timer.is_alive() answered, the pair the call returns
    timer_was_alive, ssh_stdout, ssh_stderr,
    \* history: the calls of process.kill() on a process that had ended
    late_kills

sshVars == <<ssh_blank, ssh_timeout, command_duration, ssh_pc, ssh_clock, ssh_process,
             ssh_timer, timer_was_alive, ssh_stdout, ssh_stderr, late_kills>>

\* the state of the components that run on their own
toolVars == <<rsyncVars, retentionVars, timerVars, driverVars, validatorVars, callbackVars,
              sortVars, listVars, lookupVars, sshVars>>

\* what a component leaves alone
notRsyncVars == <<fsVars, upVars, dlVars, retentionVars, timerVars, driverVars, validatorVars, callbackVars, sortVars, listVars, lookupVars, sshVars>>
notRetentionVars == <<fsVars, upVars, dlVars, rsyncVars, timerVars, driverVars, validatorVars, callbackVars, sortVars, listVars, lookupVars, sshVars>>
notTimerVars == <<fsVars, upVars, dlVars, rsyncVars, retentionVars, driverVars, validatorVars, callbackVars, sortVars, listVars, lookupVars, sshVars>>
notDriverVars == <<fsVars, upVars, dlVars, rsyncVars, retentionVars, timerVars, validatorVars, callbackVars, sortVars, listVars, lookupVars, sshVars>>
notValidatorVars == <<fsVars, upVars, dlVars, rsyncVars, retentionVars, timerVars, driverVars, callbackVars, sortVars, listVars, lookupVars, sshVars>>
notCallbackVars == <<fsVars, upVars, dlVars, rsyncVars, retentionVars, timerVars, driverVars, validatorVars, sortVars, listVars, lookupVars, sshVars>>
notSortVars == <<fsVars, upVars, dlVars, rsyncVars, retentionVars, timerVars, driverVars, validatorVars, callbackVars, listVars, lookupVars, sshVars>>
notListVars == <<fsVars, upVars, dlVars, rsyncVars, retentionVars, timerVars, driverVars, validatorVars, callbackVars, sortVars, lookupVars, sshVars>>
notLookupVars == <<fsVars, upVars, dlVars, rsyncVars, retentionVars, timerVars, driverVars, validatorVars, callbackVars, sortVars, listVars, sshVars>>
notSshVars == <<fsVars, upVars, dlVars, rsyncVars, retentionVars, timerVars, driverVars, validatorVars, callbackVars, sortVars, listVars, lookupVars>>

\* what an upload, respectively a download, leaves alone
notUploadVars == <<dlVars, toolVars>>
notDownloadVars == <<upVars, toolVars>>
vars == <<fsVars, upVars, dlVars, toolVars>>

\* The customers of the configuration, by name; names and paths are
\* sequences of characters.
ConfiguredCustomers == { <<"c">>, <<"d">> }

\* The backup the loop of process_backup_list is working on.
cur == IF bidx \in 1..Len(local_backup_list) THEN local_backup_list[bidx] ELSE 1

RemoteSnapshot(b) == [tars |-> remote_tars[b], files |-> remote_files[b],
                      fdesc |-> remote_fdesc[b], vdesc |-> remote_vdesc[b]]

InitOffsite ==
    /\ remote_tars = [b \in Backups |-> {}]
    /\ remote_files = [b \in Backups |-> {}]
    /\ remote_fdesc = [b \in Backups |-> NoDescriptor]
    /\ remote_vdesc = [b \in Backups |-> NoDescriptor]

InitUpload ==
    /\ tmp_tars = [b \in Backups |-> {}]
    /\ tmp_tar_content = [b \in Backups |-> [v \in Volumes |-> "none"]]
    /\ tmp_dirs = [b \in Backups |-> {}]
    /\ attempts = 0
    /\ local_backup_list = <<>>
    /\ pc = "idle"
    /\ bidx = 0
    /\ backup_error_list = <<>>
    /\ list_result = "none"
    /\ file_list = <<>>
    /\ uploaded_volume_name_list = {}
    /\ volume_path_list_to_process = <<>>
    /\ vi = 0
    /\ fi = 0
    /\ processed_file_name_list = <<>>
    /\ process_pool = "none"
    /\ transfer_pool = "none"
    /\ task = [v \in Volumes |-> "none"]
    /\ volume_output = [v \in Volumes |-> get_empty_volume_output(FALSE)]
    /\ backup_output_dict = <<>>
    /\ class = [v \in Volumes |-> "none"]
    /\ encodes = [v \in Volumes |-> 0]
    /\ puts = [v \in Volumes |-> 0]
    /\ meta_puts = 0
    /\ ok_sent = FALSE
    /\ sent_after_ok = {}
    /\ raised_kind = "none"
    /\ raised_msgs = {}
    /\ last_ok = [b \in Backups |-> FALSE]
    /\ rerun_of_ok = FALSE
    /\ free_disk_space_onsite = 0
    /\ remove_errors_logged = {}
    /\ remote_before = [tars |-> {}, files |-> {}, fdesc |-> NoDescriptor,
                        vdesc |-> NoDescriptor]
    /\ tmp_before = {}

InitDownloadSide ==
    /\ local_dirs = [v \in Volumes |-> "none"]
    /\ local_tars = {}
    /\ local_files = {}
    /\ downloads = 0
    /\ customer_name = "none"
    /\ dl_pc = "idle"
    /\ dl_error = "none"
    /\ dl_raised_msgs = {}
    /\ volume_name_list = <<>>
    /\ missing_volume_list = <<>>
    /\ dl_vi = 0
    /\ offsite_process_pool = "none"
    /\ offsite_transfer_pool = "none"
    /\ dl_task = [v \in Volumes |-> "none"]
    /\ dl_volume_output = [v \in Volumes |-> get_empty_volume_output(FALSE)]
    /\ offsite_backup_output_dict = <<>>
    /\ dl_class = [v \in Volumes |-> "none"]
    /\ dl_removed = {}
    /\ tar_not_removed = {}
    /\ classified = [v \in Volumes |-> 0]
    /\ gets = [v \in Volumes |-> 0]
    /\ decodes = [v \in Volumes |-> 0]
    /\ fetches = 0

\* No transfer_file call is under way.
InitRsyncManager ==
    /\ method = "none"
    /\ rsync_pc = "idle"
    /\ retry = 0
    /\ n_files = 0
    /\ current_try = 0
    /\ n_transferred_files = 0
    /\ rsync_error = "none"
    /\ invocations = 0
    /\ matches = 0

\* ------------------------------------------------------------ retention
NumCustomers == 2
NumTags == 3
MaxRetention == 2

Customers == 1..NumCustomers
Tags == 1..NumTags

\* A backup directory of a customer is absent, empty, or holds entries.
DirStates == {"absent", "empty", "full"}

\* No clean up is under way; what is on the off-site is given by dirs.
InitCleanup(dirs) ==
    /\ offsite_dirs = dirs
    /\ cleanup_pc = "idle"
    /\ offsite_retention = 0
    /\ dir_list_by_customer_dict = [c \in customer_config_dict |-> {}]
    /\ customers_to_visit = {}
    /\ dir_to_be_removed_list = {}
    /\ not_removed_list = {}
    /\ validated_removed_list = {}
    /\ cleanup_status = "none"
    /\ out_msg = "none"
    /\ exit_code = "none"
    /\ dirs_at_start = dirs

\* Uploads and downloads of one customer: no other backup on the off-site.
InitRetentionSide ==
    /\ customer_config_dict = {1}
    /\ oldest_entry = [t \in Tags |-> t]
    /\ InitCleanup([c \in Customers |-> [t \in Tags |-> "absent"]])

\* ---------------------------------------------------------- timer_delay
MaxDelay == 2
MaxDuration == 3
\* max_delay = None: the keyword argument is missing
NoDelay == -1

\* No decorated method is being called.
InitTimer ==
    /\ max_delay = NoDelay
    /\ on_timeout_is_callable = FALSE
    /\ td_pc = "idle"
    /\ clock = 0
    /\ timer = "none"
    /\ method_duration = 0
    /\ method_done = 0
    /\ method_result = "none"
    /\ wrapper_result = "none"
    /\ on_timeout_calls = 0

\* ----------------------------------------------------------------- main
\* the status of a process that has not exited
NotExited == -1

\* main has not been called.
InitDriver ==
    /\ main_pc = "idle"
    /\ script_option = 0
    /\ has_backup_tag = FALSE
    /\ customer_name_arg = ""
    /\ customers_left = 0
    /\ is_success = TRUE
    /\ ended_by = "none"
    /\ sys_exit = NotExited

\* ---------------------------------------------- number of processors
DEFAULT_NUM_PROCESSORS == 5
MaxCores == 6
MaxProcessorsArg == 8

\* The values of --number_processors: a text int() does not parse, or one
\* it parses to a number.
ProcessorsArgs ==
    {[parses |-> FALSE, number |-> 0]} \cup
    {[parses |-> TRUE, number |-> n] : n \in -MaxProcessorsArg..MaxProcessorsArg}

\* The arguments of a call of validate_number_of_processors that is still
\* to be made.
InitValidator ==
    /\ num_processors_arg \in ProcessorsArgs
    /\ available_cores \in 1..MaxCores
    /\ np_pc = "idle"
    /\ num_processors_to_use = 0

\* The default value of the argument on a machine with that many cores.
InitValidatorIdle ==
    /\ num_processors_arg = [parses |-> TRUE, number |-> DEFAULT_NUM_PROCESSORS]
    /\ available_cores = DEFAULT_NUM_PROCESSORS
    /\ np_pc = "idle"
    /\ num_processors_to_use = 0

\* ------------------------------------------------- threads of the pools
\* process_backup before its loop over volume_path_to_process_list: a new
\* backup_output_dict, two new pools, no task submitted.
InitCallbacks ==
    /\ cb_main = "submit"
    /\ cb_submitted = 0
    /\ cb_stage = [v \in Volumes |-> "none"]
    /\ cb_status = [v \in Volumes |-> TRUE]
    /\ callbacks = {}
    /\ cb_output_dict = [v \in Volumes |-> "none"]
    /\ cb_writes = [v \in Volumes |-> 0]

\* ------------------------------------------------ the sort of the folders
NumFolders == 3
MaxStamp == 2

Folders == 1..NumFolders

\* What `find F ! -path F` meets first in time inside a folder: nothing, or
\* an entry with its time stamp that lies in the folder itself ("direct"),
\* in a sub-folder of it ("nested"), or in the folder with a blank in its
\* name ("blank").
NoEntry == [kind |-> "none", stamp |-> 0]
FolderContents ==
    {NoEntry} \cup [kind : {"direct", "nested", "blank"}, stamp : 1..MaxStamp]

\* A call of sort_remote_folders_by_content that is still to be made: its
\* argument is a list of distinct folders.
InitSort ==
    /\ folder_content \in [Folders -> FolderContents]
    /\ remote_folder_list \in
         UNION {{l \in [1..n -> Folders] : \A i, j \in 1..n : i # j => l[i] # l[j]} :
                  n \in 0..NumFolders}
    /\ sort_pc = "idle"
    /\ sorted_folder_list = <<>>
    /\ sort_raised = FALSE

\* No call is made.
InitSortIdle ==
    /\ folder_content = [f \in Folders |-> NoEntry]
    /\ remote_folder_list = <<>>
    /\ sort_pc = "idle"
    /\ sorted_folder_list = <<>>
    /\ sort_raised = FALSE

\* ------------------------------------------------- the on-site backups
NumEntries == 3
MaxMtime == 2

Entries == 1..NumEntries

\* The content of the customer's backup path before process_backup_list is
\* called: os.listdir gives the entries in any order; an entry is a file, a
\* folder that validate_backup_per_volume refuses, or a valid backup.
InitList ==
    /\ customer_tags \in
         {l \in [Entries -> Entries] : \A i, j \in Entries : i # j => l[i] # l[j]}
    /\ entry_kind \in [Entries -> {"file", "invalid", "valid"}]
    /\ entry_mtime \in [Entries -> 1..MaxMtime]
    /\ tag_argument = 0
    /\ list_pc = "idle"
    /\ valid_onsite_backups_list = <<>>
    /\ processed_backups = <<>>
    /\ failed_backups = <<>>
    /\ list_raised = "none"

\* The entries are valid backups listed from the oldest to the newest.
InitListIdle ==
    /\ customer_tags = [e \in Entries |-> e]
    /\ entry_kind = [e \in Entries |-> "valid"]
    /\ entry_mtime = [e \in Entries |-> IF e < MaxMtime THEN e ELSE MaxMtime]
    /\ tag_argument = 0
    /\ list_pc = "idle"
    /\ valid_onsite_backups_list = <<>>
    /\ processed_backups = <<>>
    /\ failed_backups = <<>>
    /\ list_raised = "none"

\* execute_download_backup_from_offsite has not been called.
InitLookupIdle ==
    /\ offsite_listing = [c \in ConfiguredCustomers |-> <<>>]
    /\ listing_answered = TRUE
    /\ customer_name_query = <<>>
    /\ backup_tag_query = <<>>
    /\ resolve_pc = "idle"
    /\ resolve_error = "none"
    /\ resolved_customer_name = <<>>
    /\ backup_path_to_be_retrieved = <<>>

\* run_ssh_command has not been called.
InitSshIdle ==
    /\ ssh_blank = FALSE
    /\ ssh_timeout = 1
    /\ command_duration = 1
    /\ ssh_pc = "idle"
    /\ ssh_clock = 0
    /\ ssh_process = "none"
    /\ ssh_timer = "none"
    /\ timer_was_alive = TRUE
    /\ ssh_stdout = "none"
    /\ ssh_stderr = "none"
    /\ late_kills = 0

\* Every component in its initial state.
InitIdle ==
    /\ InitLookupIdle /\ InitSshIdle /\ InitRsyncManager /\ InitRetentionSide /\ InitTimer /\ InitDriver /\ InitValidatorIdle
    /\ InitCallbacks /\ InitSortIdle /\ InitListIdle

\* Upload runs start with nothing on the off-site and nothing in the
\* temporary folders.
Init == InitOffsite /\ InitUpload /\ InitDownloadSide /\ InitIdle

\* ------------------------------------------------ process_backup_list
\* backup/exceptions.py: `except UploadBackupException` in the loop of
\* process_backup_list catches the failures of one backup.
CaughtByBackupLoop(kind) ==
    kind \in { "CannotCreatePath", "NotEnoughFreeDiskSpace",
               "FailedToGetProcessedVolsNamesOffsite", "VolumeErrors",
               "TransferError", "EncryptError", "CannotRemoveFile" }

\* The mutant of RaiseInLoop for C8: the except clause reports the failure
\* at once instead of going on with the next backup.
RaiseInLoop_stops_the_list(kind, msgs) ==
    /\ raised_kind' = kind
    /\ raised_msgs' = msgs
    /\ last_ok' = [last_ok EXCEPT ![cur] = FALSE]
    /\ backup_error_list' = Append(backup_error_list, cur)
    /\ pc' = "finished"
    /\ list_result' = "errors"
    /\ UNCHANGED bidx

\* An exception raised inside the try block of the loop: its message is
\* appended to backup_error_list and the loop goes on with the next backup.
\* A kind the except clause does not catch leaves process_backup_list.
RaiseInLoop(kind, msgs) ==
    /\ raised_kind' = kind
    /\ raised_msgs' = msgs
    /\ last_ok' = [last_ok EXCEPT ![cur] = FALSE]
    /\ IF CaughtByBackupLoop(kind)
       THEN /\ backup_error_list' = Append(backup_error_list, cur)
            /\ bidx' = bidx + 1
            /\ pc' = "loop"
            /\ UNCHANGED list_result
       ELSE /\ pc' = "finished"
            /\ list_result' = "raised"
            /\ UNCHANGED <<bidx, backup_error_list>>

\* Entry of process_backup_list up to the loop: the list of valid backups
\* and the base paths.  A failure here is raised before any backup is tried.
\* get_and_validate_onsite_backups_list: every valid backup of the customer,
\* or the one named by backup_tag (0 stands for no tag).
get_and_validate_onsite_backups_list(backup_tag) ==
    IF backup_tag = 0 THEN UpTo(NumBackups) ELSE <<backup_tag>>

process_backup_list ==
    /\ pc \in {"idle", "finished"}
    /\ \E backup_tag \in {0} \cup Backups, base_paths \in {"ok", "CannotCreatePath"} :
         /\ local_backup_list' = get_and_validate_onsite_backups_list(backup_tag)
         /\ attempts + Len(local_backup_list') <= MaxAttempts
         /\ attempts' = attempts + Len(local_backup_list')
         /\ remove_errors_logged' = {}
         /\ IF base_paths = "ok"
            THEN /\ pc' = "loop"
                 /\ bidx' = 1
                 /\ backup_error_list' = <<>>
                 /\ list_result' = "none"
            ELSE /\ pc' = "finished"
                 /\ list_result' = "raised"
                 /\ bidx' = 0
                 /\ backup_error_list' = <<>>
    /\ raised_kind' = "none"
    /\ raised_msgs' = {}
    /\ UNCHANGED <<fsVars, last_ok, bkpVars, poolVars, taskVars, histVars, crossVars>>
    /\ UNCHANGED notUploadVars

\* Top of the loop body: create the temporary and the remote backup folder,
\* then call process_backup.
prepare_backup ==
    /\ pc = "loop"
    /\ bidx <= Len(local_backup_list)
    /\ \E created \in {"ok", "tmp_failed", "remote_failed"} :
         IF created = "ok"
         THEN /\ pc' = "disk"
              /\ raised_kind' = "none"
              /\ raised_msgs' = {}
              /\ UNCHANGED raiseVars
         ELSE RaiseInLoop("CannotCreatePath", {})
    /\ UNCHANGED <<fsVars, runVars, bkpVars, poolVars, taskVars, histVars, crossVars>>
    /\ UNCHANGED notUploadVars

\* After the loop: raise ProcessBackupListErrors if any backup failed.
process_backup_list_end ==
    /\ pc = "loop"
    /\ bidx > Len(local_backup_list)
    /\ pc' = "finished"
    /\ list_result' = IF backup_error_list # <<>> THEN "errors" ELSE "ok"
    /\ UNCHANGED <<fsVars, runVars, bidx, backup_error_list, last_ok, errVars,
                   bkpVars, poolVars, taskVars, histVars, crossVars>>
    /\ UNCHANGED notUploadVars

\* ------------------------------------------------------ process_backup
BackupSizeMB == 1
MaxFreeMB == 2

\* The mutant of check_local_disk_space_for_upload for C25: a disk with
\* exactly the size of the backup free is accepted.
check_local_disk_space_for_upload_accepts_equal(free_disk_space_onsite_mb, bkp_size_mb) ==
    ~ (free_disk_space_onsite_mb < bkp_size_mb)

\* check_local_disk_space_for_upload: refuses when free <= size.
check_local_disk_space_for_upload(free_disk_space_onsite_mb, bkp_size_mb) ==
    ~ (free_disk_space_onsite_mb <= bkp_size_mb)

\* process_backup, lines 257-265: disk check, new output dictionary, new
\* transfer pool.
process_backup ==
    /\ pc = "disk"
    /\ class' = [v \in Volumes |-> "none"]
    /\ encodes' = [v \in Volumes |-> 0]
    /\ puts' = [v \in Volumes |-> 0]
    /\ meta_puts' = 0
    /\ ok_sent' = FALSE
    /\ sent_after_ok' = {}
    /\ rerun_of_ok' = last_ok[cur]
    /\ remote_before' = RemoteSnapshot(cur)
    /\ tmp_before' = tmp_tars[cur]
    /\ task' = [v \in Volumes |-> "none"]
    /\ volume_output' = [v \in Volumes |-> get_empty_volume_output(FALSE)]
    /\ \E free \in 0..MaxFreeMB :
         /\ free_disk_space_onsite' = free
         /\ IF check_local_disk_space_for_upload(free, BackupSizeMB)
            THEN /\ backup_output_dict' = <<>>
                 /\ transfer_pool' = "open"
                 /\ process_pool' = "none"
                 /\ pc' = "partition"
                 /\ UNCHANGED <<raiseVars, errVars>>
            ELSE /\ RaiseInLoop("NotEnoughFreeDiskSpace", {})
                 /\ UNCHANGED <<backup_output_dict, poolVars>>
    /\ UNCHANGED <<fsVars, runVars, bkpVars>>
    /\ UNCHANGED notUploadVars

\* validate_already_processed_volumes, lines 328-338: the local lists and the
\* list of V.tar names on the remote.
list_volumes ==
    /\ pc = "partition"
    /\ \E order \in FileOrders, listing \in {"ok", "CannotAccessHost"} :
         IF listing = "ok"
         THEN /\ file_list' = order
              /\ uploaded_volume_name_list' = remote_tars[cur]
              /\ volume_path_list_to_process' = <<>>
              /\ vi' = 1
              /\ pc' = "classify"
              /\ UNCHANGED <<raiseVars, errVars, fi, processed_file_name_list>>
         ELSE /\ RaiseInLoop("FailedToGetProcessedVolsNamesOffsite", {})
              /\ UNCHANGED bkpVars
    /\ UNCHANGED <<fsVars, runVars, poolVars, taskVars, histVars, crossVars>>
    /\ UNCHANGED notUploadVars

\* The mutant of on_volume_ready for C6: the status of the outcome is not
\* looked at.
on_volume_ready_submits_all(v, out) ==
    /\ task' = [task EXCEPT ![v] = "transfer_queued"]
    /\ volume_output' = [volume_output EXCEPT ![v] = out]
    /\ UNCHANGED backup_output_dict

\* on_volume_ready: a successful outcome is submitted to the transfer pool,
\* a failed one is recorded in backup_output_dict.
on_volume_ready(v, out) ==
    IF out.status
    THEN /\ task' = [task EXCEPT ![v] = "transfer_queued"]
         /\ volume_output' = [volume_output EXCEPT ![v] = out]
         /\ UNCHANGED backup_output_dict
    ELSE /\ backup_output_dict' = DictPut(backup_output_dict, v, out)
         /\ task' = [task EXCEPT ![v] = "finished"]
         /\ UNCHANGED volume_output

\* The tests of the loop of validate_already_processed_volumes, in order:
\* V.tar on the remote, V.tar in the temporary folder, the folder V there.
VolumeClass(v) ==
    IF v \in uploaded_volume_name_list THEN "transferred"
    ELSE IF v \in tmp_tars[cur] THEN "processed"
    ELSE IF v \in tmp_dirs[cur] THEN "unfinished"
    ELSE "pending"

\* One iteration of the loop of validate_already_processed_volumes
\* (lines 339-369); after the last one process_backup goes on.  What
\* remove_path of an unfinished folder returns is dropped (line 367).
validate_already_processed_volumes ==
    /\ pc = "classify"
    /\ LET v == volume_path_list[vi] IN
         /\ class' = [class EXCEPT ![v] = VolumeClass(v)]
         /\ IF VolumeClass(v) = "transferred"
            THEN /\ task' = [task EXCEPT ![v] = "skipped"]
                 /\ UNCHANGED <<volume_output, backup_output_dict, tmp_dirs,
                                volume_path_list_to_process>>
            ELSE IF VolumeClass(v) = "processed"
            THEN /\ on_volume_ready(v, get_empty_volume_output(TRUE))
                 /\ UNCHANGED <<tmp_dirs, volume_path_list_to_process>>
            ELSE /\ \E removed \in BOOLEAN :
                      tmp_dirs' = [tmp_dirs EXCEPT ![cur] = IF removed THEN @ \ {v} ELSE @]
                 /\ volume_path_list_to_process' = Append(volume_path_list_to_process, v)
                 /\ UNCHANGED taskVars
    /\ vi' = vi + 1
    /\ pc' = IF vi = Len(volume_path_list) THEN "submit" ELSE "classify"
    /\ UNCHANGED <<remote_tars, remote_files, remote_fdesc, remote_vdesc, tmp_tars, tmp_tar_content,
                   runVars, raiseVars, errVars, file_list, uploaded_volume_name_list, fi,
                   processed_file_name_list, poolVars, encodes, puts, meta_puts,
                   ok_sent, sent_after_ok, crossVars>>
    /\ UNCHANGED notUploadVars

\* process_backup, lines 274-286: the process pool is created, one task per
\* volume to process is submitted, and the pool is closed.
submit_volumes ==
    /\ pc = "submit"
    /\ process_pool' = "closed"
    /\ task' = [v \in Volumes |->
                  IF v \in Range(volume_path_list_to_process) THEN "process_queued"
                  ELSE task[v]]
    /\ pc' = "join_process"
    /\ UNCHANGED <<fsVars, runVars, raiseVars, errVars, bkpVars, transfer_pool,
                   volume_output, backup_output_dict, histVars, crossVars>>
    /\ UNCHANGED notUploadVars

Busy(state) == Cardinality({v \in Volumes : task[v] = state})

\* A worker of the process pool takes a task: process_volume starts by
\* creating the temporary folder of the volume (line 552).
process_volume_begin(v) ==
    /\ process_pool = "closed"
    /\ task[v] = "process_queued"
    /\ Busy("processing") < process_pool_size
    /\ task' = [task EXCEPT ![v] = "processing"]
    /\ tmp_dirs' = [tmp_dirs EXCEPT ![cur] = @ \cup {v}]
    /\ encodes' = [encodes EXCEPT ![v] = @ + 1]
    /\ UNCHANGED <<remote_tars, remote_files, remote_fdesc, remote_vdesc, tmp_tars, tmp_tar_content,
                   pc, runVars, raiseVars, errVars, bkpVars, poolVars, volume_output,
                   backup_output_dict, class, puts, meta_puts, ok_sent,
                   sent_after_ok, crossVars>>
    /\ UNCHANGED notUploadVars

ProcessOutcomes == {"ok", "EncryptError", "TarZipCommandError", "CannotRemovePath", "raised"}

\* What process_volume leaves in V.tar of the temporary folder: tar_file
\* writes to V.tar itself, so a tar command that fails leaves what it had
\* written; the archive is whole when only the removal of the folder failed.
TarWritten(outcome) ==
    IF outcome = "ok" THEN "archive"
    ELSE IF outcome = "CannotRemovePath" THEN "archive of a failed encode"
    ELSE IF outcome = "TarZipCommandError" THEN "partial"
    ELSE "none"

\* The mutant of process_volume for C31: a volume that fails takes the
\* volumes that wait in the pool with it.
process_volume_failure_ends_the_pool(v) ==
    /\ task[v] = "processing"
    /\ \E outcome \in ProcessOutcomes :
         /\ tmp_tars' = [tmp_tars EXCEPT ![cur] =
                           IF TarWritten(outcome) # "none" THEN @ \cup {v} ELSE @]
         /\ tmp_tar_content' = [tmp_tar_content EXCEPT ![cur][v] =
                           IF TarWritten(outcome) # "none" THEN TarWritten(outcome) ELSE @]
         /\ tmp_dirs' = [tmp_dirs EXCEPT ![cur] = IF outcome = "ok" THEN @ \ {v} ELSE @]
         /\ IF outcome = "raised"
            THEN /\ task' = [w \in Volumes |->
                               IF w = v \/ task[w] = "process_queued" THEN "lost" ELSE task[w]]
                 /\ UNCHANGED volume_output
            ELSE /\ task' = [w \in Volumes |->
                               IF w = v THEN "processed"
                               ELSE IF outcome # "ok" /\ task[w] = "process_queued" THEN "lost"
                               ELSE task[w]]
                 /\ volume_output' = [volume_output EXCEPT ![v] =
                        IF outcome = "ok"
                        THEN get_empty_volume_output(TRUE)
                        ELSE [status |-> FALSE,
                              output |-> Message(v, "Error while processing volume.")]]
    /\ UNCHANGED <<remote_tars, remote_files, remote_fdesc, remote_vdesc, pc, runVars,
                   raiseVars, errVars, bkpVars, poolVars, backup_output_dict, class,
                   encodes, puts, meta_puts, ok_sent, sent_after_ok, crossVars>>
    /\ UNCHANGED notUploadVars

\* process_volume, lines 551-592, in a worker of the process pool.  A
\* BurException becomes an outcome with status false; any other exception
\* leaves the worker and apply_async calls no callback for the task.
process_volume(v) ==
    /\ task[v] = "processing"
    /\ \E outcome \in ProcessOutcomes :
         /\ tmp_tars' = [tmp_tars EXCEPT ![cur] =
                           IF TarWritten(outcome) # "none" THEN @ \cup {v} ELSE @]
         /\ tmp_tar_content' = [tmp_tar_content EXCEPT ![cur][v] =
                           IF TarWritten(outcome) # "none" THEN TarWritten(outcome) ELSE @]
         /\ tmp_dirs' = [tmp_dirs EXCEPT ![cur] = IF outcome = "ok" THEN @ \ {v} ELSE @]
         /\ IF outcome = "raised"
            THEN /\ task' = [task EXCEPT ![v] = "lost"]
                 /\ UNCHANGED volume_output
            ELSE /\ task' = [task EXCEPT ![v] = "processed"]
                 /\ volume_output' = [volume_output EXCEPT ![v] =
                        IF outcome = "ok"
                        THEN get_empty_volume_output(TRUE)
                        ELSE [status |-> FALSE,
                              output |-> Message(v, "Error while processing volume.")]]
    /\ UNCHANGED <<remote_tars, remote_files, remote_fdesc, remote_vdesc, pc, runVars,
                   raiseVars, errVars, bkpVars, poolVars, backup_output_dict, class,
                   encodes, puts, meta_puts, ok_sent, sent_after_ok, crossVars>>
    /\ UNCHANGED notUploadVars

\* The result handler of the process pool calls on_volume_ready with the
\* outcome of a finished task.
on_volume_ready_callback(v) ==
    /\ task[v] = "processed"
    /\ on_volume_ready(v, volume_output[v])
    /\ UNCHANGED <<fsVars, pc, runVars, raiseVars, errVars, bkpVars, poolVars, histVars,
                   crossVars>>
    /\ UNCHANGED notUploadVars

\* The mutant of join_process_pool for C36: the transfer pool is closed
\* while tasks of the process pool are still to end.
join_process_pool_without_waiting ==
    /\ pc = "join_process"
    /\ process_pool' = "joined"
    /\ transfer_pool' = "closed"
    /\ pc' = "join_transfer"
    /\ UNCHANGED <<fsVars, runVars, raiseVars, errVars, bkpVars, taskVars, histVars,
                   crossVars>>
    /\ UNCHANGED notUploadVars

\* process_pool.join() (line 287): every task has ended and every callback
\* has been called.  Then transfer_pool.close() (line 289).
join_process_pool ==
    /\ pc = "join_process"
    /\ \A v \in Volumes : task[v] \notin {"process_queued", "processing", "processed"}
    /\ process_pool' = "joined"
    /\ transfer_pool' = "closed"
    /\ pc' = "join_transfer"
    /\ UNCHANGED <<fsVars, runVars, raiseVars, errVars, bkpVars, taskVars, histVars,
                   crossVars>>
    /\ UNCHANGED notUploadVars

\* The mutant of transfer_begin for C14: a transfer starts for every task
\* submitted, whatever the number of transfers that run.
transfer_begin_without_pool(v) ==
    /\ transfer_pool \in {"open", "closed"}
    /\ task[v] = "transfer_queued"
    /\ task' = [task EXCEPT ![v] = "transferring"]
    /\ puts' = [puts EXCEPT ![v] = @ + 1]
    /\ UNCHANGED <<fsVars, pc, runVars, raiseVars, errVars, bkpVars, poolVars,
                   volume_output, backup_output_dict, class, encodes, meta_puts,
                   ok_sent, sent_after_ok, crossVars>>
    /\ UNCHANGED notUploadVars

\* A worker of the transfer pool takes a task.
transfer_begin(v) ==
    /\ transfer_pool \in {"open", "closed"}
    /\ task[v] = "transfer_queued"
    /\ Busy("transferring") < transfer_pool_size
    /\ task' = [task EXCEPT ![v] = "transferring"]
    /\ puts' = [puts EXCEPT ![v] = @ + 1]
    /\ UNCHANGED <<fsVars, pc, runVars, raiseVars, errVars, bkpVars, poolVars,
                   volume_output, backup_output_dict, class, encodes, meta_puts,
                   ok_sent, sent_after_ok, crossVars>>
    /\ UNCHANGED notUploadVars

TransferOutcomes == {"ok", "TransferError", "CannotRemovePath", "raised"}

\* transfer_backup_volume_to_offsite, lines 610-647, in a worker of the
\* transfer pool: rsync of V.tar, then removal of the temporary V.tar.
transfer_backup_volume_to_offsite(v) ==
    /\ task[v] = "transferring"
    /\ \E outcome \in TransferOutcomes :
         /\ remote_tars' = [remote_tars EXCEPT ![cur] =
                              IF outcome \in {"ok", "CannotRemovePath"} THEN @ \cup {v} ELSE @]
         /\ tmp_tars' = [tmp_tars EXCEPT ![cur] = IF outcome = "ok" THEN @ \ {v} ELSE @]
         /\ tmp_tar_content' = [tmp_tar_content EXCEPT ![cur][v] =
                                  IF outcome = "ok" THEN "none" ELSE @]
         /\ sent_after_ok' = IF ok_sent /\ outcome \in {"ok", "CannotRemovePath"}
                             THEN sent_after_ok \cup {"volume"} ELSE sent_after_ok
         /\ IF outcome = "raised"
            THEN /\ task' = [task EXCEPT ![v] = "lost"]
                 /\ UNCHANGED volume_output
            ELSE /\ task' = [task EXCEPT ![v] = "transferred"]
                 /\ volume_output' = [volume_output EXCEPT ![v] =
                        IF outcome = "ok"
                        THEN get_empty_volume_output(TRUE)
                        ELSE [status |-> FALSE,
                              output |-> Message(v, "Error while transferring volume.")]]
    /\ UNCHANGED <<remote_files, remote_fdesc, remote_vdesc, tmp_dirs, pc, runVars,
                   raiseVars, errVars, bkpVars, poolVars, backup_output_dict, class,
                   encodes, puts, meta_puts, ok_sent, crossVars>>
    /\ UNCHANGED notUploadVars

\* The result handler of the transfer pool calls on_volume_transferred.
on_volume_transferred(v) ==
    /\ task[v] = "transferred"
    /\ backup_output_dict' = DictPut(backup_output_dict, v, volume_output[v])
    /\ task' = [task EXCEPT ![v] = "finished"]
    /\ UNCHANGED <<fsVars, pc, runVars, raiseVars, errVars, bkpVars, poolVars,
                   volume_output, histVars, crossVars>>
    /\ UNCHANGED notUploadVars

\* transfer_pool.join() (line 290).
join_transfer_pool ==
    /\ pc = "join_transfer"
    /\ \A v \in Volumes : task[v] \notin {"transfer_queued", "transferring", "transferred"}
    /\ transfer_pool' = "joined"
    /\ pc' = "check"
    /\ UNCHANGED <<fsVars, runVars, raiseVars, errVars, bkpVars, process_pool, taskVars,
                   histVars, crossVars>>
    /\ UNCHANGED notUploadVars

FailedVolumes == {k \in DOMAIN backup_output_dict : ~ backup_output_dict[k].status}

\* The mutant of failed_volume_error_message_list for C7: only one failed
\* volume is reported.
failed_volume_error_message_list_keeps_one ==
    IF FailedVolumes = {} THEN {}
    ELSE {backup_output_dict[CHOOSE k \in FailedVolumes : TRUE].output}

\* check_backup_output_errors, lines 523-530: the messages of the outcomes
\* whose status is false.
failed_volume_error_message_list ==
    {backup_output_dict[k].output : k \in FailedVolumes}

\* check_backup_output_errors (line 292): raises with the messages of all
\* outcomes whose status is false.
check_backup_output_errors ==
    /\ pc = "check"
    /\ IF failed_volume_error_message_list # {}
       THEN /\ RaiseInLoop("VolumeErrors", failed_volume_error_message_list)
            /\ UNCHANGED bkpVars
       ELSE /\ pc' = "metadata"
            /\ fi' = 1
            /\ processed_file_name_list' = <<>>
            /\ UNCHANGED <<raiseVars, errVars, file_list, uploaded_volume_name_list,
                           volume_path_list_to_process, vi>>
    /\ UNCHANGED <<fsVars, runVars, poolVars, taskVars, histVars, crossVars>>
    /\ UNCHANGED notUploadVars

\* check_remote_path_exists: true only when the ssh command answered and the
\* path is there.
check_remote_path_exists(present, ssh_answered) == ssh_answered /\ present

\* RsyncManager.transfer_file followed by the code after it: the object is
\* on the remote unless the transfer itself failed.
Transferred(outcome) == outcome \in {"ok", "CannotRemoveFile"}

\* One iteration of the loop of process_backup_metadata_files (lines
\* 421-454); after the last one the list of processed names is returned.
process_backup_metadata_files ==
    /\ pc = "metadata"
    /\ LET file_name == file_list[fi]
           file_to_transfer == IF file_name = SUCCESS_FLAG_FILE THEN SUCCESS_FLAG_FILE
                               ELSE META_ARCHIVE
           outcomes == IF file_name = SUCCESS_FLAG_FILE THEN {"ok", "TransferError"}
                       ELSE {"ok", "EncryptError", "CannotRemoveFile", "TransferError"}
       IN \E ssh_answered \in BOOLEAN :
            IF check_remote_path_exists(file_name \in remote_files[cur], ssh_answered)
            THEN /\ fi' = fi + 1
                 /\ pc' = IF fi = Len(file_list) THEN "file_descriptor" ELSE "metadata"
                 /\ UNCHANGED <<fsVars, raiseVars, errVars, processed_file_name_list,
                                histVars>>
            ELSE \E outcome \in outcomes :
                   /\ IF outcome = "ok"
                      THEN /\ remote_files' = [remote_files EXCEPT ![cur] =
                                                 @ \cup {file_to_transfer}]
                           /\ processed_file_name_list' =
                                  Append(processed_file_name_list, file_to_transfer)
                           /\ ok_sent' = (ok_sent \/ file_name = SUCCESS_FLAG_FILE)
                           /\ meta_puts' = IF file_name = BACKUP_META_FILE
                                           THEN meta_puts + 1 ELSE meta_puts
                           /\ sent_after_ok' = IF ok_sent
                                               THEN sent_after_ok \cup {file_to_transfer}
                                               ELSE sent_after_ok
                           /\ fi' = fi + 1
                           /\ pc' = IF fi = Len(file_list) THEN "file_descriptor"
                                    ELSE "metadata"
                           /\ UNCHANGED <<raiseVars, errVars>>
                      ELSE /\ RaiseInLoop(outcome, {})
                           /\ UNCHANGED <<remote_files, processed_file_name_list, fi,
                                          ok_sent, meta_puts, sent_after_ok>>
                   /\ UNCHANGED <<remote_tars, remote_fdesc, remote_vdesc, tmp_tars, tmp_tar_content,
                                  tmp_dirs, class, encodes, puts>>
    /\ UNCHANGED <<runVars, file_list, uploaded_volume_name_list,
                   volume_path_list_to_process, vi, poolVars, taskVars, crossVars>>
    /\ UNCHANGED notUploadVars

DescriptorOutcomes == {"ok", "TransferError", "CannotRemoveFile"}

\* create_transfer_pickle_file: the pickle of content_list is written to the
\* remote unless the transfer failed.
create_transfer_pickle_file(descriptor, content_list, outcome) ==
    IF Transferred(outcome) THEN Descriptor(content_list) ELSE descriptor

\* process_bur_descriptors for the file list (line 297).
process_bur_descriptors_file_list ==
    /\ pc = "file_descriptor"
    /\ \E ssh_answered \in BOOLEAN :
         IF check_remote_path_exists(remote_fdesc[cur].present, ssh_answered)
         THEN /\ pc' = "volume_descriptor"
              /\ UNCHANGED <<fsVars, raiseVars, errVars, histVars>>
         ELSE \E outcome \in DescriptorOutcomes :
                /\ remote_fdesc' = [remote_fdesc EXCEPT ![cur] =
                       create_transfer_pickle_file(@, processed_file_name_list, outcome)]
                /\ sent_after_ok' = IF ok_sent /\ Transferred(outcome)
                                    THEN sent_after_ok \cup {BUR_FILE_LIST_DESCRIPTOR_FILE_NAME}
                                    ELSE sent_after_ok
                /\ IF outcome = "ok"
                   THEN pc' = "volume_descriptor" /\ UNCHANGED <<raiseVars, errVars>>
                   ELSE RaiseInLoop(outcome, {})
                /\ UNCHANGED <<remote_tars, remote_files, remote_vdesc, tmp_tars, tmp_tar_content,
                               tmp_dirs, class, encodes, puts, meta_puts, ok_sent>>
    /\ UNCHANGED <<runVars, bkpVars, poolVars, taskVars, crossVars>>
    /\ UNCHANGED notUploadVars

\* process_bur_descriptors for the volume list (lines 300-303), then the
\* return of process_backup.
process_bur_descriptors_volume_list ==
    /\ pc = "volume_descriptor"
    /\ \E ssh_answered \in BOOLEAN :
         IF check_remote_path_exists(remote_vdesc[cur].present, ssh_answered)
         THEN /\ pc' = "returned"
              /\ last_ok' = [last_ok EXCEPT ![cur] = TRUE]
              /\ UNCHANGED <<fsVars, bidx, backup_error_list, list_result, errVars,
                             histVars>>
         ELSE \E outcome \in DescriptorOutcomes :
                /\ remote_vdesc' = [remote_vdesc EXCEPT ![cur] =
                       create_transfer_pickle_file(@, volume_path_list, outcome)]
                /\ sent_after_ok' = IF ok_sent /\ Transferred(outcome)
                                    THEN sent_after_ok \cup {BUR_VOLUME_LIST_DESCRIPTOR_FILE_NAME}
                                    ELSE sent_after_ok
                /\ IF outcome = "ok"
                   THEN /\ pc' = "returned"
                        /\ last_ok' = [last_ok EXCEPT ![cur] = TRUE]
                        /\ UNCHANGED <<bidx, backup_error_list, list_result, errVars>>
                   ELSE RaiseInLoop(outcome, {})
                /\ UNCHANGED <<remote_tars, remote_files, remote_fdesc, tmp_tars, tmp_tar_content,
                               tmp_dirs, class, encodes, puts, meta_puts, ok_sent>>
    /\ UNCHANGED <<runVars, bkpVars, poolVars, taskVars, crossVars>>
    /\ UNCHANGED notUploadVars

\* The mutant of remove_temporary_backup_folder for C26: a folder that
\* cannot be removed fails the backup.
remove_temporary_backup_folder_raises ==
    /\ pc = "returned"
    /\ \E removed \in BOOLEAN :
         IF removed
         THEN /\ tmp_tars' = [tmp_tars EXCEPT ![cur] = {}]
              /\ tmp_tar_content' = [tmp_tar_content EXCEPT ![cur] =
                                       [v \in Volumes |-> "none"]]
              /\ tmp_dirs' = [tmp_dirs EXCEPT ![cur] = {}]
              /\ bidx' = bidx + 1
              /\ pc' = "loop"
              /\ UNCHANGED <<backup_error_list, list_result, last_ok, errVars>>
         ELSE /\ RaiseInLoop("CannotRemovePath", {})
              /\ UNCHANGED <<tmp_tars, tmp_tar_content, tmp_dirs>>
    /\ UNCHANGED <<remote_tars, remote_files, remote_fdesc, remote_vdesc, runVars,
                   bkpVars, poolVars, taskVars, histVars, crossVars>>
    /\ UNCHANGED notUploadVars

\* process_backup_list, lines 161-163: after process_backup returned the
\* temporary folder of the backup is removed; a failure is only logged.
remove_temporary_backup_folder ==
    /\ pc = "returned"
    /\ \E removed \in BOOLEAN :
         /\ tmp_tars' = [tmp_tars EXCEPT ![cur] = IF removed THEN {} ELSE @]
         /\ tmp_tar_content' = [tmp_tar_content EXCEPT ![cur] =
                                  IF removed THEN [v \in Volumes |-> "none"] ELSE @]
         /\ tmp_dirs' = [tmp_dirs EXCEPT ![cur] = IF removed THEN {} ELSE @]
         /\ remove_errors_logged' =
                IF removed THEN remove_errors_logged ELSE remove_errors_logged \cup {cur}
    /\ bidx' = bidx + 1
    /\ pc' = "loop"
    /\ UNCHANGED <<remote_tars, remote_files, remote_fdesc, remote_vdesc, attempts,
                   local_backup_list,
                   backup_error_list, list_result, last_ok, errVars, bkpVars,
                   poolVars, taskVars, histVars, crossVars>>
    /\ UNCHANGED notUploadVars

\* The run is stopped from outside (the process and its pools are killed,
\* the host goes down): nothing more is done, and what is on the disks
\* stays there for the next run to find.  A worker that is stopped while
\* tar writes V.tar (compress.py, tar_file) leaves a part of the archive.
interrupt ==
    /\ pc \notin {"idle", "finished"}
    /\ \E stopped_in_tar \in SUBSET {v \in Volumes : task[v] = "processing"} :
         /\ tmp_tars' = [tmp_tars EXCEPT ![cur] = @ \cup stopped_in_tar]
         /\ tmp_tar_content' = [tmp_tar_content EXCEPT ![cur] =
                [v \in Volumes |-> IF v \in stopped_in_tar THEN "partial" ELSE @[v]]]
    /\ pc' = "finished"
    /\ list_result' = "interrupted"
    /\ last_ok' = IF pc \in {"loop", "returned"} THEN last_ok
                  ELSE [last_ok EXCEPT ![cur] = FALSE]
    /\ process_pool' = "none"
    /\ transfer_pool' = "none"
    /\ task' = [v \in Volumes |-> "none"]
    /\ volume_output' = [v \in Volumes |-> get_empty_volume_output(FALSE)]
    /\ backup_output_dict' = <<>>
    /\ raised_kind' = "none"
    /\ raised_msgs' = {}
    /\ UNCHANGED <<remote_tars, remote_files, remote_fdesc, remote_vdesc, tmp_dirs,
                   runVars, bidx, backup_error_list, bkpVars, histVars, crossVars>>
    /\ UNCHANGED notUploadVars

Next ==
    \/ process_backup_list
    \/ prepare_backup
    \/ process_backup_list_end
    \/ process_backup
    \/ list_volumes
    \/ validate_already_processed_volumes
    \/ submit_volumes
    \/ \E v \in Volumes : process_volume_begin(v)
    \/ \E v \in Volumes : process_volume(v)
    \/ \E v \in Volumes : on_volume_ready_callback(v)
    \/ join_process_pool
    \/ \E v \in Volumes : transfer_begin(v)
    \/ \E v \in Volumes : transfer_backup_volume_to_offsite(v)
    \/ \E v \in Volumes : on_volume_transferred(v)
    \/ join_transfer_pool
    \/ check_backup_output_errors
    \/ process_backup_metadata_files
    \/ process_bur_descriptors_file_list
    \/ process_bur_descriptors_volume_list
    \/ remove_temporary_backup_folder
    \/ interrupt

Spec == Init /\ [][Next]_vars

\* ============================================================ download
MaxDownloads == 2
GENIE_VOL_BKPS_DEPLOYMENT == "genie_vol_bkp"
\* the deployment labels a download is asked for
DeploymentLabels == {GENIE_VOL_BKPS_DEPLOYMENT, "customer"}
\* the backup that is downloaded
tag == 1

OFFSITE_FILE_LIST == <<SUCCESS_FLAG_FILE, META_ARCHIVE>>

\* What uploads can leave on the off-site for a backup: volume archives of
\* an upload in progress; the success flag and the metadata archive with or
\* without the descriptors; a file-list descriptor written by a resumed
\* upload that found BACKUP_OK already there.
OffsiteStates ==
    { [tars |-> t, files |-> {}, fdesc |-> NoDescriptor, vdesc |-> NoDescriptor] :
        t \in SUBSET Volumes }
    \cup
    { [tars |-> t, files |-> Range(OFFSITE_FILE_LIST), fdesc |-> d[1], vdesc |-> d[2]] :
        t \in SUBSET Volumes,
        d \in { <<NoDescriptor, NoDescriptor>>,
                <<Descriptor(OFFSITE_FILE_LIST), NoDescriptor>>,
                <<Descriptor(OFFSITE_FILE_LIST), Descriptor(volume_path_list)>>,
                <<Descriptor(<<META_ARCHIVE>>), NoDescriptor>>,
                <<Descriptor(<<META_ARCHIVE>>), Descriptor(volume_path_list)>> } }

\* An off-site left by uploads.
InitOffsiteLeftByUploads ==
    \E s \in OffsiteStates :
         /\ remote_tars = [b \in Backups |-> IF b = tag THEN s.tars ELSE {}]
         /\ remote_files = [b \in Backups |-> IF b = tag THEN s.files ELSE {}]
         /\ remote_fdesc = [b \in Backups |-> IF b = tag THEN s.fdesc ELSE NoDescriptor]
         /\ remote_vdesc = [b \in Backups |-> IF b = tag THEN s.vdesc ELSE NoDescriptor]

\* Downloads start from an off-site left by uploads and an empty destination.
InitDownload ==
    /\ InitOffsiteLeftByUploads
    /\ InitUpload
    /\ InitDownloadSide
    /\ InitIdle

\* check_local_disk_space_for_download: refuses when free <= size.
check_local_disk_space_for_download(free_disk_space_onsite_mb, bkp_size_offsite_mb) ==
    ~ (free_disk_space_onsite_mb <= bkp_size_offsite_mb)

\* An exception leaves download_process_backup.
RaiseDownload(kind) ==
    /\ dl_pc' = "failed"
    /\ dl_error' = kind
    /\ dl_raised_msgs' = {}

\* download_process_backup, lines 257-265: disk check and destination folder.
download_process_backup ==
    /\ dl_pc \in {"idle", "done", "failed"}
    /\ downloads < MaxDownloads
    /\ downloads' = downloads + 1
    /\ customer_name' \in DeploymentLabels
    /\ dl_class' = [v \in Volumes |-> "none"]
    /\ dl_removed' = {}
    /\ tar_not_removed' = {}
    /\ classified' = [v \in Volumes |-> 0]
    /\ gets' = [v \in Volumes |-> 0]
    /\ decodes' = [v \in Volumes |-> 0]
    /\ fetches' = 0
    /\ dl_task' = [v \in Volumes |-> "none"]
    /\ dl_volume_output' = [v \in Volumes |-> get_empty_volume_output(FALSE)]
    /\ volume_name_list' = <<>>
    /\ missing_volume_list' = <<>>
    /\ dl_vi' = 0
    /\ \E free \in 0..MaxFreeMB, created \in BOOLEAN :
         IF ~ check_local_disk_space_for_download(free, BackupSizeMB)
         THEN RaiseDownload("NotEnoughFreeDiskSpace")
         ELSE IF ~ created
         THEN RaiseDownload("CannotCreatePath")
         ELSE dl_pc' = "flag" /\ dl_error' = "none" /\ dl_raised_msgs' = {}
    /\ UNCHANGED <<fsVars, notDownloadVars, localVars, dlPoolVars, offsite_backup_output_dict>>

\* The mutant of check_offsite_backup_success_flag for C9: the answer of the
\* check is not looked at.
check_offsite_backup_success_flag_not_enforced ==
    /\ dl_pc = "flag"
    /\ offsite_backup_output_dict' = <<>>
    /\ offsite_process_pool' = "open"
    /\ offsite_transfer_pool' = "none"
    /\ dl_pc' = "descriptor"
    /\ UNCHANGED <<fsVars, notDownloadVars, localVars, dlCtlVars, dl_task, dl_volume_output,
                   dlHistVars>>

\* check_offsite_backup_success_flag (line 269), then the new output
\* dictionary and the new process pool (lines 273-275).
check_offsite_backup_success_flag ==
    /\ dl_pc = "flag"
    /\ \E ssh_answered \in BOOLEAN :
         IF ~ check_remote_path_exists(SUCCESS_FLAG_FILE \in remote_files[tag], ssh_answered)
         THEN /\ RaiseDownload("MissingBackupOKFlag")
              /\ UNCHANGED <<offsite_backup_output_dict, dlPoolVars>>
         ELSE /\ offsite_backup_output_dict' = <<>>
              /\ offsite_process_pool' = "open"
              /\ offsite_transfer_pool' = "none"
              /\ dl_pc' = "descriptor"
              /\ UNCHANGED <<dl_error, dl_raised_msgs>>
    /\ UNCHANGED <<fsVars, notDownloadVars, localVars, downloads, customer_name,
                   volume_name_list,
                   missing_volume_list, dl_vi, dl_task, dl_volume_output, dlHistVars>>

PickleOutcomes == {"ok", "TransferError", "CannotRemoveFile"}

\* retrieve_remote_pickle_file_content: the list in the remote pickle file,
\* or the exception that replaces it.
retrieve_remote_pickle_file_content(descriptor, outcome) ==
    IF ~ descriptor.present THEN [error |-> "TransferError", content |-> <<>>]
    ELSE IF outcome # "ok" THEN [error |-> outcome, content |-> <<>>]
    ELSE [error |-> "none", content |-> descriptor.content]

\* check_volumes_for_download, lines 342-354: the volume-list descriptor.
retrieve_volume_list ==
    /\ dl_pc = "descriptor"
    /\ fetches' = fetches + 1
    /\ \E outcome \in PickleOutcomes :
         LET got == retrieve_remote_pickle_file_content(remote_vdesc[tag], outcome) IN
         IF got.error # "none"
         THEN RaiseDownload(got.error) /\ UNCHANGED <<volume_name_list, missing_volume_list, dl_vi>>
         ELSE IF got.content = <<>>
         THEN RaiseDownload("NoVolumeListForBackup")
              /\ UNCHANGED <<volume_name_list, missing_volume_list, dl_vi>>
         ELSE /\ volume_name_list' = got.content
              /\ missing_volume_list' = <<>>
              /\ dl_vi' = 1
              /\ dl_pc' = "classify"
              /\ UNCHANGED <<dl_error, dl_raised_msgs>>
    /\ UNCHANGED <<fsVars, notDownloadVars, localVars, downloads, customer_name, dlPoolVars, dlTaskVars,
                   dl_class, dl_removed, classified, gets, decodes, tar_not_removed>>

\* validate_volume_metadata of a volume folder of the destination.
validate_volume_metadata(dir) == dir = "valid"

\* The mutant of check_is_processed_volume for C10: a folder that exists
\* counts as processed.
check_is_processed_volume_skips_validation(dir) ==
    [processed |-> dir # "none", dir |-> dir]

\* check_is_processed_volume: the answer, and the volume folder afterwards
\* (a folder that does not validate is removed).
check_is_processed_volume(dir) ==
    IF dir = "none" THEN [processed |-> FALSE, dir |-> dir]
    ELSE IF ~ validate_volume_metadata(dir) THEN [processed |-> FALSE, dir |-> "none"]
    ELSE [processed |-> TRUE, dir |-> dir]

\* on_volume_downloaded: a downloaded volume is submitted to the process
\* pool, a failed download is recorded.
on_volume_downloaded(v, out) ==
    IF out.status
    THEN /\ dl_task' = [dl_task EXCEPT ![v] = "process_queued"]
         /\ dl_volume_output' = [dl_volume_output EXCEPT ![v] = out]
         /\ UNCHANGED offsite_backup_output_dict
    ELSE /\ offsite_backup_output_dict' = DictPut(offsite_backup_output_dict, v, out)
         /\ dl_task' = [dl_task EXCEPT ![v] = "finished"]
         /\ UNCHANGED dl_volume_output

\* One iteration of the loop of check_volumes_for_download (lines 356-376).
check_volumes_for_download ==
    /\ dl_pc = "classify"
    /\ LET v == volume_name_list[dl_vi]
           checked == check_is_processed_volume(local_dirs[v])
       IN /\ local_dirs' = [local_dirs EXCEPT ![v] = checked.dir]
          /\ dl_removed' = IF checked.dir # local_dirs[v] THEN dl_removed \cup {v}
                           ELSE dl_removed
          /\ classified' = [classified EXCEPT ![v] = @ + 1]
          /\ IF checked.processed
             THEN /\ dl_class' = [dl_class EXCEPT ![v] = "done"]
                  /\ UNCHANGED <<dlTaskVars, missing_volume_list>>
             ELSE IF v \in local_tars
             THEN /\ dl_class' = [dl_class EXCEPT ![v] = "ready"]
                  /\ on_volume_downloaded(v, get_empty_volume_output(TRUE))
                  /\ UNCHANGED missing_volume_list
             ELSE /\ dl_class' = [dl_class EXCEPT ![v] = "missing"]
                  /\ missing_volume_list' = Append(missing_volume_list, v)
                  /\ UNCHANGED dlTaskVars
    /\ dl_vi' = dl_vi + 1
    /\ dl_pc' = IF dl_vi = Len(volume_name_list) THEN "download" ELSE "classify"
    /\ UNCHANGED <<fsVars, notDownloadVars, local_tars, local_files, downloads, customer_name,
                   dl_error, dl_raised_msgs,
                   volume_name_list, dlPoolVars, gets, decodes, fetches, tar_not_removed>>

\* download_process_backup, lines 280-300: when volumes are missing the
\* transfer pool is created, one download per missing volume is submitted,
\* the pool is closed and joined; then the process pool is closed.
submit_downloads ==
    /\ dl_pc = "download"
    /\ IF missing_volume_list # <<>>
       THEN /\ offsite_transfer_pool' = "closed"
            /\ dl_task' = [v \in Volumes |->
                             IF v \in Range(missing_volume_list) THEN "download_queued"
                             ELSE dl_task[v]]
            /\ dl_pc' = "join_transfer"
            /\ UNCHANGED offsite_process_pool
       ELSE /\ offsite_process_pool' = "closed"
            /\ dl_pc' = "join_process"
            /\ UNCHANGED <<offsite_transfer_pool, dl_task>>
    /\ UNCHANGED <<fsVars, notDownloadVars, localVars, dlCtlVars, dl_volume_output,
                   offsite_backup_output_dict, dlHistVars>>

DlBusy(state) == Cardinality({v \in Volumes : dl_task[v] = state})

\* A worker of the transfer pool takes a download.
download_begin(v) ==
    /\ offsite_transfer_pool = "closed"
    /\ dl_task[v] = "download_queued"
    /\ DlBusy("downloading") < transfer_pool_size
    /\ dl_task' = [dl_task EXCEPT ![v] = "downloading"]
    /\ gets' = [gets EXCEPT ![v] = @ + 1]
    /\ UNCHANGED <<fsVars, notDownloadVars, localVars, dl_pc, dlCtlVars, dlPoolVars,
                   dl_volume_output, offsite_backup_output_dict, dl_class,
                   dl_removed, classified, decodes, fetches, tar_not_removed>>

DownloadOutcomes == {"ok", "TransferError", "raised"}

\* download_volume_from_offsite in a worker of the transfer pool: a
\* BurException becomes an outcome with status false, any other exception
\* leaves the worker without a callback.
download_volume_from_offsite(v) ==
    /\ dl_task[v] = "downloading"
    /\ \E outcome \in DownloadOutcomes :
         /\ outcome = "ok" => v \in remote_tars[tag]
         /\ local_tars' = IF outcome = "ok" THEN local_tars \cup {v} ELSE local_tars
         /\ IF outcome = "raised"
            THEN /\ dl_task' = [dl_task EXCEPT ![v] = "lost"]
                 /\ UNCHANGED dl_volume_output
            ELSE /\ dl_task' = [dl_task EXCEPT ![v] = "downloaded"]
                 /\ dl_volume_output' = [dl_volume_output EXCEPT ![v] =
                        IF outcome = "ok"
                        THEN get_empty_volume_output(TRUE)
                        ELSE [status |-> FALSE,
                              output |-> Message(v, "Error while downloading volume.")]]
    /\ UNCHANGED <<fsVars, notDownloadVars, local_dirs, local_files, dl_pc, dlCtlVars,
                   dlPoolVars, offsite_backup_output_dict, dlHistVars>>

\* The result handler of the transfer pool calls on_volume_downloaded.
on_volume_downloaded_callback(v) ==
    /\ dl_task[v] = "downloaded"
    /\ on_volume_downloaded(v, dl_volume_output[v])
    /\ UNCHANGED <<fsVars, notDownloadVars, localVars, dl_pc, dlCtlVars, dlPoolVars, dlHistVars>>

\* transfer_pool.join() (line 298), then process_pool.close() (line 300).
offsite_join_transfer_pool ==
    /\ dl_pc = "join_transfer"
    /\ \A v \in Volumes : dl_task[v] \notin {"download_queued", "downloading", "downloaded"}
    /\ offsite_transfer_pool' = "joined"
    /\ offsite_process_pool' = "closed"
    /\ dl_pc' = "join_process"
    /\ UNCHANGED <<fsVars, notDownloadVars, localVars, dlCtlVars, dlTaskVars, dlHistVars>>

\* A worker of the process pool takes a downloaded volume.
offsite_process_volume_begin(v) ==
    /\ offsite_process_pool \in {"open", "closed"}
    /\ dl_task[v] = "process_queued"
    /\ DlBusy("processing") < process_pool_size
    /\ dl_task' = [dl_task EXCEPT ![v] = "processing"]
    /\ decodes' = [decodes EXCEPT ![v] = @ + 1]
    /\ UNCHANGED <<fsVars, notDownloadVars, localVars, dl_pc, dlCtlVars, dlPoolVars,
                   dl_volume_output, offsite_backup_output_dict, dl_class,
                   dl_removed, classified, gets, fetches, tar_not_removed>>

\* "raised": an exception that is no BurException, before the extraction;
\* "raised_extracted": the same, after V.tar was extracted and removed.
DecodeOutcomes == {"ok", "DecompressError", "DecryptError", "raised", "raised_extracted"}

\* decompress_file(volume_full_path, volume_root_path, True) of
\* process_volume (line 551): once V.tar is extracted, remove_path is called
\* on it and what remove_path returns is dropped.
Extracted(outcome) == outcome \in {"ok", "DecryptError", "raised_extracted"}

\* The mutant of offsite_process_volume for C28: V.tar is left where it is.
offsite_process_volume_keeps_archive(v) ==
    /\ dl_task[v] = "processing"
    /\ \E outcome \in DecodeOutcomes :
         /\ UNCHANGED <<local_tars, tar_not_removed>>
         /\ local_dirs' = [local_dirs EXCEPT ![v] =
                             IF outcome = "ok" THEN "valid"
                             ELSE IF outcome = "raised" THEN @ ELSE "invalid"]
         /\ IF outcome \in {"raised", "raised_extracted"}
            THEN /\ dl_task' = [dl_task EXCEPT ![v] = "lost"]
                 /\ UNCHANGED dl_volume_output
            ELSE /\ dl_task' = [dl_task EXCEPT ![v] = "processed"]
                 /\ dl_volume_output' = [dl_volume_output EXCEPT ![v] =
                        IF outcome = "ok"
                        THEN get_empty_volume_output(TRUE)
                        ELSE [status |-> FALSE,
                              output |-> Message(v, "Error while processing volume.")]]
    /\ UNCHANGED <<fsVars, notDownloadVars, local_files, dl_pc, dlCtlVars, dlPoolVars,
                   offsite_backup_output_dict, dl_class, dl_removed, classified, gets,
                   decodes, fetches>>

\* OffsiteBackupHandler.process_volume in a worker of the process pool:
\* V.tar is extracted and removed, then the files of V are decrypted.
offsite_process_volume(v) ==
    /\ dl_task[v] = "processing"
    /\ \E outcome \in DecodeOutcomes, removed \in BOOLEAN :
         /\ local_tars' = IF Extracted(outcome) /\ removed
                          THEN local_tars \ {v}
                          ELSE local_tars
         /\ tar_not_removed' = IF Extracted(outcome) /\ ~ removed
                               THEN tar_not_removed \cup {v}
                               ELSE tar_not_removed \ {v}
         /\ local_dirs' = [local_dirs EXCEPT ![v] =
                             IF outcome = "ok" THEN "valid"
                             ELSE IF outcome = "raised" THEN @ ELSE "invalid"]
         /\ IF outcome \in {"raised", "raised_extracted"}
            THEN /\ dl_task' = [dl_task EXCEPT ![v] = "lost"]
                 /\ UNCHANGED dl_volume_output
            ELSE /\ dl_task' = [dl_task EXCEPT ![v] = "processed"]
                 /\ dl_volume_output' = [dl_volume_output EXCEPT ![v] =
                        IF outcome = "ok"
                        THEN get_empty_volume_output(TRUE)
                        ELSE [status |-> FALSE,
                              output |-> Message(v, "Error while processing volume.")]]
    /\ UNCHANGED <<fsVars, notDownloadVars, local_files, dl_pc, dlCtlVars, dlPoolVars,
                   offsite_backup_output_dict, dl_class, dl_removed, classified, gets,
                   decodes, fetches>>

\* The result handler of the process pool calls on_volume_processed.
on_volume_processed(v) ==
    /\ dl_task[v] = "processed"
    /\ offsite_backup_output_dict' = DictPut(offsite_backup_output_dict, v, dl_volume_output[v])
    /\ dl_task' = [dl_task EXCEPT ![v] = "finished"]
    /\ UNCHANGED <<fsVars, notDownloadVars, localVars, dl_pc, dlCtlVars, dlPoolVars,
                   dl_volume_output, dlHistVars>>

\* process_pool.join() (line 301).
offsite_join_process_pool ==
    /\ dl_pc = "join_process"
    /\ \A v \in Volumes : dl_task[v] \notin {"process_queued", "processing", "processed"}
    /\ offsite_process_pool' = "joined"
    /\ dl_pc' = "metadata"
    /\ UNCHANGED <<fsVars, notDownloadVars, localVars, dlCtlVars, offsite_transfer_pool,
                   dlTaskVars, dlHistVars>>

\* The files of the destination after the files named in the file-list
\* descriptor were downloaded; the metadata archive is extracted and removed.
Downloaded(file_name_list) ==
    { IF f = META_ARCHIVE THEN BACKUP_META_FILE ELSE f : f \in Range(file_name_list) }

\* OffsiteBackupHandler.process_backup_metadata_files (line 303): the
\* file-list descriptor, the files it names, then
\* check_onsite_backup_success_flag.
offsite_process_backup_metadata_files ==
    /\ dl_pc = "metadata"
    /\ fetches' = fetches + 1
    /\ \E outcome \in PickleOutcomes, files \in {"ok", "TransferError"} :
         LET got == retrieve_remote_pickle_file_content(remote_fdesc[tag], outcome) IN
         IF got.error # "none"
         THEN RaiseDownload(got.error) /\ UNCHANGED local_files
         ELSE IF files # "ok"
         THEN RaiseDownload(files) /\ UNCHANGED local_files
         ELSE /\ local_files' = local_files \cup Downloaded(got.content)
              /\ IF SUCCESS_FLAG_FILE \notin local_files'
                 THEN RaiseDownload("MissingBackupOKFlag")
                 ELSE dl_pc' = "verify" /\ UNCHANGED <<dl_error, dl_raised_msgs>>
    /\ UNCHANGED <<fsVars, notDownloadVars, local_dirs, local_tars, downloads, customer_name,
                   volume_name_list,
                   missing_volume_list, dl_vi, dlPoolVars, dlTaskVars, dl_class,
                   dl_removed, classified, gets, decodes, tar_not_removed>>

\* is_backup_ok_valid: BACKUP_OK is among the files of the backup folder.
is_backup_ok_valid(files) == SUCCESS_FLAG_FILE \in files

\* is_backup_volume_valid: there is a volume folder and every volume folder
\* validates against its metadata.
is_backup_volume_valid(dirs) ==
    LET folders == {v \in Volumes : dirs[v] # "none"} IN
    /\ folders # {}
    /\ \A v \in folders : validate_volume_metadata(dirs[v])

\* validate_backup_per_volume: the volumes are not validated for the
\* deployment label genie_vol_bkp.
validate_backup_per_volume(deployment_label, files, dirs) ==
    IF deployment_label = GENIE_VOL_BKPS_DEPLOYMENT
    THEN is_backup_ok_valid(files)
    ELSE is_backup_ok_valid(files) /\ is_backup_volume_valid(dirs)

DlFailedVolumes ==
    {k \in DOMAIN offsite_backup_output_dict : ~ offsite_backup_output_dict[k].status}

\* The mutant of offsite_failed_volume_error_message_list for C12: the
\* message of one failed volume only.
offsite_failed_volume_error_message_list_keeps_one ==
    IF DlFailedVolumes = {} THEN {}
    ELSE {offsite_backup_output_dict[CHOOSE k \in DlFailedVolumes : TRUE].output}

\* check_backup_download_errors, lines 494-500: the messages of the outcomes
\* with status false.
offsite_failed_volume_error_message_list ==
    {offsite_backup_output_dict[k].output : k \in DlFailedVolumes}

\* raise DownloadBackupException(DownloadProcessFailed, messages), line 503.
RaiseDownloadProcessFailed(messages) ==
    /\ dl_pc' = "failed"
    /\ dl_error' = "DownloadProcessFailed"
    /\ dl_raised_msgs' = messages

\* The mutant of check_backup_download_errors for C11: the volume folders
\* are not looked for.
check_backup_download_errors_skips_missing_volume ==
    /\ dl_pc = "verify"
    /\ IF offsite_failed_volume_error_message_list # {}
       THEN RaiseDownloadProcessFailed(offsite_failed_volume_error_message_list)
       ELSE IF ~ validate_backup_per_volume(customer_name, local_files, local_dirs)
       THEN RaiseDownload("MetadataValidationFailed")
       ELSE dl_pc' = "done" /\ UNCHANGED <<dl_error, dl_raised_msgs>>
    /\ UNCHANGED <<fsVars, notDownloadVars, localVars, downloads, customer_name,
                   volume_name_list, missing_volume_list, dl_vi, dlPoolVars,
                   dlTaskVars, dlHistVars>>

\* check_backup_download_errors (line 310), then the return.
check_backup_download_errors ==
    /\ dl_pc = "verify"
    /\ IF offsite_failed_volume_error_message_list # {}
       THEN RaiseDownloadProcessFailed(offsite_failed_volume_error_message_list)
       ELSE IF \E v \in Range(volume_name_list) : local_dirs[v] = "none"
       THEN RaiseDownload("MissingVolume")
       ELSE IF ~ validate_backup_per_volume(customer_name, local_files, local_dirs)
       THEN RaiseDownload("MetadataValidationFailed")
       ELSE dl_pc' = "done" /\ UNCHANGED <<dl_error, dl_raised_msgs>>
    /\ UNCHANGED <<fsVars, notDownloadVars, localVars, downloads, customer_name,
                   volume_name_list, missing_volume_list, dl_vi, dlPoolVars,
                   dlTaskVars, dlHistVars>>

NextDownload ==
    \/ download_process_backup
    \/ check_offsite_backup_success_flag
    \/ retrieve_volume_list
    \/ check_volumes_for_download
    \/ submit_downloads
    \/ \E v \in Volumes : download_begin(v)
    \/ \E v \in Volumes : download_volume_from_offsite(v)
    \/ \E v \in Volumes : on_volume_downloaded_callback(v)
    \/ offsite_join_transfer_pool
    \/ \E v \in Volumes : offsite_process_volume_begin(v)
    \/ \E v \in Volumes : offsite_process_volume(v)
    \/ \E v \in Volumes : on_volume_processed(v)
    \/ offsite_join_process_pool
    \/ offsite_process_backup_metadata_files
    \/ check_backup_download_errors

SpecDownload == InitDownload /\ [][NextDownload]_vars

\* ======================================================= rsync manager
NUMBER_TRIES == 3
MaxFiles == 2
\* the numbers of tries an RsyncManager is built with
Retries == 1..NUMBER_TRIES

\* An RsyncException leaves send or receive.
RaiseRsync(code) ==
    /\ rsync_pc' = "raised"
    /\ rsync_error' = code

\* RsyncManager.transfer_file: a source with '@' is received, any other is
\* sent, by a new RsyncManager.
transfer_file ==
    /\ rsync_pc \in {"idle", "returned", "raised"}
    /\ \E source_is_remote \in BOOLEAN, tries \in Retries :
         /\ method' = IF source_is_remote THEN "receive" ELSE "send"
         /\ retry' = tries
    /\ rsync_pc' = "called"
    /\ n_files' = 0
    /\ current_try' = 0
    /\ n_transferred_files' = 0
    /\ rsync_error' = "none"
    /\ invocations' = 0
    /\ matches' = 0
    /\ UNCHANGED <<notRsyncVars>>

\* send, lines 228-238: the number of files of the source.
send ==
    /\ rsync_pc = "called"
    /\ method = "send"
    /\ \E n \in 0..MaxFiles :
         /\ n_files' = n
         /\ IF n = 0
            THEN RaiseRsync("NoFilesToSend") /\ UNCHANGED current_try
            ELSE rsync_pc' = "send" /\ current_try' = 1 /\ UNCHANGED rsync_error
    /\ UNCHANGED <<notRsyncVars, method, retry, n_transferred_files,
                   invocations, matches>>

\* what one run of rsync gives: its statistics, a non-zero exit, an output
\* that cannot be parsed
RsyncOutcomes == {"stats", "CalledProcessError", "CannotParseValue"}

\* The mutant of send_try for C15: the first mismatch ends the call.
send_try_without_retry ==
    /\ rsync_pc = "send"
    /\ invocations' = invocations + 1
    /\ \E outcome \in RsyncOutcomes, transferred \in 0..MaxFiles :
         IF outcome # "stats"
         THEN /\ RaiseRsync(outcome)
              /\ UNCHANGED <<current_try, n_transferred_files, matches>>
         ELSE /\ n_transferred_files' = transferred
              /\ IF transferred = n_files
                 THEN /\ rsync_pc' = "returned"
                      /\ matches' = matches + 1
                      /\ UNCHANGED <<current_try, rsync_error>>
                 ELSE /\ RaiseRsync("ExceedTryOuts")
                      /\ UNCHANGED <<current_try, matches>>
    /\ UNCHANGED <<notRsyncVars, method, retry, n_files>>

\* One iteration of the loop of send (lines 240-251).
send_try ==
    /\ rsync_pc = "send"
    /\ invocations' = invocations + 1
    /\ \E outcome \in RsyncOutcomes, transferred \in 0..MaxFiles :
         IF outcome # "stats"
         THEN /\ RaiseRsync(outcome)
              /\ UNCHANGED <<current_try, n_transferred_files, matches>>
         ELSE /\ n_transferred_files' = transferred
              /\ IF transferred = n_files
                 THEN /\ rsync_pc' = "returned"
                      /\ matches' = matches + 1
                      /\ UNCHANGED <<current_try, rsync_error>>
                 ELSE IF current_try = retry
                 THEN /\ RaiseRsync("ExceedTryOuts")
                      /\ UNCHANGED <<current_try, matches>>
                 ELSE /\ current_try' = current_try + 1
                      /\ UNCHANGED <<rsync_pc, rsync_error, matches>>
    /\ UNCHANGED <<notRsyncVars, method, retry, n_files>>

\* receive (lines 173-216): the path is checked, rsync runs once, the
\* number of files transferred is compared with the numbers of files of the
\* origin and of the destination.
receive ==
    /\ rsync_pc = "called"
    /\ method = "receive"
    /\ \E path_is_valid \in BOOLEAN, outcome \in RsyncOutcomes,
          transferred, origin_number_files, destination_number_files \in 0..MaxFiles :
         IF ~ path_is_valid
         THEN /\ RaiseRsync("InvalidPath")
              /\ UNCHANGED <<n_files, n_transferred_files, invocations, matches>>
         ELSE /\ invocations' = invocations + 1
              /\ IF outcome # "stats"
                 THEN /\ RaiseRsync(outcome)
                      /\ UNCHANGED <<n_files, n_transferred_files, matches>>
                 ELSE /\ n_transferred_files' = transferred
                      /\ n_files' = origin_number_files
                      /\ IF transferred # origin_number_files
                            \/ transferred # destination_number_files
                         THEN /\ RaiseRsync("RsyncTransferNumberFilesDiffer")
                              /\ UNCHANGED matches
                         ELSE /\ rsync_pc' = "returned"
                              /\ matches' = matches + 1
                              /\ UNCHANGED rsync_error
    /\ UNCHANGED <<notRsyncVars, method, retry, current_try>>

NextRsync ==
    \/ transfer_file
    \/ send
    \/ send_try
    \/ receive

SpecRsync == Init /\ [][NextRsync]_vars

\* ===================================================== off-site clean up
\* The path of the backup directory of tag t of customer c is <<c, t>>.

\* An exception that nothing catches leaves clean_offsite_backup and the
\* driver.
RaiseCleanup(code) ==
    /\ cleanup_pc' = "exited"
    /\ cleanup_status' = "raised"
    /\ out_msg' = code
    /\ exit_code' = "uncaught"

\* get_offsite_backup_dict: the directories of every customer as one ssh
\* command lists them; the error stream of the command is dropped, and a
\* command that did not answer leaves an empty output.
get_offsite_backup_dict(ssh_answered) ==
    [c \in customer_config_dict |->
        IF ssh_answered THEN {t \in Tags : offsite_dirs[c][t] # "absent"} ELSE {}]

\* The empty output has one part only: the second customer indexes past it.
ListingIndexError(ssh_answered) ==
    ~ ssh_answered /\ Cardinality(customer_config_dict) > 1

\* is_remote_folder_empty: no file and no folder inside.
is_remote_folder_empty(c, t) == offsite_dirs[c][t] # "full"

\* sort_remote_folders_by_content: the folders that hold an entry, from the
\* newest to the oldest by the time stamp of the oldest entry inside.
sort_remote_folders_by_content(c, not_empty_bkp_path_list) ==
    LET folders == {t \in not_empty_bkp_path_list : offsite_dirs[c][t] = "full"}
    IN  CHOOSE s \in [1..Cardinality(folders) -> folders] :
            \A i, j \in 1..Cardinality(folders) :
                i < j => oldest_entry[s[i]] > oldest_entry[s[j]]

\* sorted_backup_list[offsite_retention:]
SliceFrom(list, n) == {list[i] : i \in (n + 1)..Len(list)}

\* what the ssh commands of one iteration of get_backup_dir_list_to_cleanup
\* give
CleanupOutcomes == {"ok", "CannotAccessHost", "ErrorSortingOffsiteBackupList"}

\* execute_offsite_backup_cleanup up to the listing inside
\* get_backup_dir_list_to_cleanup: the retention of the arguments, or of the
\* configuration when the argument is missing or zero.
execute_offsite_backup_cleanup ==
    /\ cleanup_pc = "idle"
    /\ dirs_at_start' = offsite_dirs
    /\ \E argument, configured \in 0..MaxRetention, ssh_answered \in BOOLEAN :
         /\ offsite_retention' = IF argument = 0 THEN configured ELSE argument
         /\ IF ListingIndexError(ssh_answered)
            THEN /\ RaiseCleanup("IndexError")
                 /\ UNCHANGED <<dir_list_by_customer_dict, customers_to_visit>>
            ELSE /\ dir_list_by_customer_dict' = get_offsite_backup_dict(ssh_answered)
                 /\ customers_to_visit' = customer_config_dict
                 /\ cleanup_pc' = "listed"
                 /\ UNCHANGED <<cleanup_status, out_msg, exit_code>>
    /\ UNCHANGED <<notRetentionVars, offsite_dirs, oldest_entry,
                   customer_config_dict, dir_to_be_removed_list, not_removed_list,
                   validated_removed_list>>

\* The mutant of get_backup_dir_list_to_cleanup for C19: the retention is
\* not compared with the number of backups, every backup is queued.
get_backup_dir_list_to_cleanup_queues_all(c) ==
    /\ cleanup_pc = "listed"
    /\ c \in customers_to_visit
    /\ \E outcome \in CleanupOutcomes :
         LET listed == dir_list_by_customer_dict[c]
             offsite_backup_list == {t \in listed : ~ is_remote_folder_empty(c, t)}
             sorted_backup_list == sort_remote_folders_by_content(c, offsite_backup_list)
             visited == customers_to_visit \ {c}
         IN  IF outcome = "CannotAccessHost" /\ listed # {}
             THEN /\ RaiseCleanup(outcome)
                  /\ UNCHANGED <<customers_to_visit, dir_to_be_removed_list>>
             ELSE /\ dir_to_be_removed_list' = dir_to_be_removed_list \cup
                        {<<c, t>> : t \in SliceFrom(sorted_backup_list, 0)}
                  /\ customers_to_visit' = visited
                  /\ cleanup_pc' = IF visited = {} THEN "remove" ELSE "listed"
                  /\ UNCHANGED <<cleanup_status, out_msg, exit_code>>
    /\ UNCHANGED <<notRetentionVars, offsite_dirs, oldest_entry,
                   customer_config_dict, offsite_retention, dir_list_by_customer_dict,
                   not_removed_list, validated_removed_list, dirs_at_start>>

\* One iteration of the loop of get_backup_dir_list_to_cleanup (lines
\* 596-618): the empty directories are filtered out; when more backups than
\* the retention are left they are sorted and the ones past the retention
\* are queued.
get_backup_dir_list_to_cleanup(c) ==
    /\ cleanup_pc = "listed"
    /\ c \in customers_to_visit
    /\ \E outcome \in CleanupOutcomes :
         LET listed == dir_list_by_customer_dict[c]
             offsite_backup_list == {t \in listed : ~ is_remote_folder_empty(c, t)}
             sorted_backup_list == sort_remote_folders_by_content(c, offsite_backup_list)
             visited == customers_to_visit \ {c}
         IN  IF outcome = "CannotAccessHost" /\ listed # {}
             THEN /\ RaiseCleanup(outcome)
                  /\ UNCHANGED <<customers_to_visit, dir_to_be_removed_list>>
             ELSE IF /\ outcome = "ErrorSortingOffsiteBackupList"
                     /\ Cardinality(offsite_backup_list) > offsite_retention
             THEN /\ RaiseCleanup(outcome)
                  /\ UNCHANGED <<customers_to_visit, dir_to_be_removed_list>>
             ELSE /\ dir_to_be_removed_list' =
                        IF Cardinality(offsite_backup_list) > offsite_retention
                        THEN dir_to_be_removed_list \cup
                             {<<c, t>> : t \in SliceFrom(sorted_backup_list, offsite_retention)}
                        ELSE dir_to_be_removed_list
                  /\ customers_to_visit' = visited
                  /\ cleanup_pc' = IF visited = {} THEN "remove" ELSE "listed"
                  /\ UNCHANGED <<cleanup_status, out_msg, exit_code>>
    /\ UNCHANGED <<notRetentionVars, offsite_dirs, oldest_entry,
                   customer_config_dict, offsite_retention, dir_list_by_customer_dict,
                   not_removed_list, validated_removed_list, dirs_at_start>>

\* validate_removed_dir_list: a path counts as removed when
\* check_remote_path_exists does not find it.
validate_removed_dir_list(remove_dir_list, remaining, ssh_answered) ==
    LET not_removed == {d \in remove_dir_list :
                            check_remote_path_exists(d \in remaining, ssh_answered)}
    IN  [not_removed_list |-> not_removed,
         validated_removed_list |-> remove_dir_list \ not_removed]

\* what the rm command of remove_remote_dir gives: nothing, or an error
\* stream
RemoveOutcomes == {"ok", "CannotRemovePath"}

\* The mutant of clean_offsite_backup for C20: the list of the directories
\* that were not removed is not looked at.
clean_offsite_backup_ignores_not_removed ==
    /\ cleanup_pc = "remove"
    /\ IF dir_to_be_removed_list = {}
       THEN /\ cleanup_status' = "true"
            /\ out_msg' = "no backup removed"
            /\ UNCHANGED <<offsite_dirs, not_removed_list, validated_removed_list>>
       ELSE \E outcome \in RemoveOutcomes, ssh_answered \in BOOLEAN,
               remaining \in SUBSET dir_to_be_removed_list :
              LET validated == validate_removed_dir_list(dir_to_be_removed_list,
                                                         remaining, ssh_answered)
              IN  /\ offsite_dirs' = [c \in Customers |-> [t \in Tags |->
                        IF <<c, t>> \in dir_to_be_removed_list \ remaining
                        THEN "absent" ELSE offsite_dirs[c][t]]]
                  /\ IF outcome = "CannotRemovePath"
                     THEN /\ cleanup_status' = "false"
                          /\ out_msg' = outcome
                          /\ UNCHANGED <<not_removed_list, validated_removed_list>>
                     ELSE /\ not_removed_list' = validated.not_removed_list
                          /\ validated_removed_list' = validated.validated_removed_list
                          /\ cleanup_status' = "true"
                          /\ out_msg' = "finished successfully"
    /\ cleanup_pc' = "returned"
    /\ UNCHANGED <<notRetentionVars, oldest_entry, customer_config_dict,
                   offsite_retention, dir_list_by_customer_dict, customers_to_visit,
                   dir_to_be_removed_list, exit_code, dirs_at_start>>

\* clean_offsite_backup after the queue is built (lines 634-648), with
\* remove_remote_dir: one rm command for the whole queue, an error stream is
\* CannotRemovePath, which is caught; the queue is validated; a directory
\* that was not removed makes the result False.
clean_offsite_backup ==
    /\ cleanup_pc = "remove"
    /\ IF dir_to_be_removed_list = {}
       THEN /\ cleanup_status' = "true"
            /\ out_msg' = "no backup removed"
            /\ UNCHANGED <<offsite_dirs, not_removed_list, validated_removed_list>>
       ELSE \E outcome \in RemoveOutcomes, ssh_answered \in BOOLEAN,
               remaining \in SUBSET dir_to_be_removed_list :
              LET validated == validate_removed_dir_list(dir_to_be_removed_list,
                                                         remaining, ssh_answered)
              IN  /\ offsite_dirs' = [c \in Customers |-> [t \in Tags |->
                        IF <<c, t>> \in dir_to_be_removed_list \ remaining
                        THEN "absent" ELSE offsite_dirs[c][t]]]
                  /\ IF outcome = "CannotRemovePath"
                     THEN /\ cleanup_status' = "false"
                          /\ out_msg' = outcome
                          /\ UNCHANGED <<not_removed_list, validated_removed_list>>
                     ELSE /\ not_removed_list' = validated.not_removed_list
                          /\ validated_removed_list' = validated.validated_removed_list
                          /\ IF validated.not_removed_list # {}
                             THEN /\ cleanup_status' = "false"
                                  /\ out_msg' = "backups were not removed"
                             ELSE /\ cleanup_status' = "true"
                                  /\ out_msg' = "finished successfully"
    /\ cleanup_pc' = "returned"
    /\ UNCHANGED <<notRetentionVars, oldest_entry, customer_config_dict,
                   offsite_retention, dir_list_by_customer_dict, customers_to_visit,
                   dir_to_be_removed_list, exit_code, dirs_at_start>>

\* execute_offsite_backup_cleanup after clean_offsite_backup returned (lines
\* 391-402): a False status is reported and ends the script with
\* FAILED_OFFSITE_CLEANUP.
report_cleanup ==
    /\ cleanup_pc = "returned"
    /\ cleanup_pc' = "exited"
    /\ exit_code' = IF cleanup_status = "false" THEN "FAILED_OFFSITE_CLEANUP" ELSE "SUCCESS"
    /\ UNCHANGED <<notRetentionVars, offsite_dirs, oldest_entry,
                   customer_config_dict, offsite_retention, dir_list_by_customer_dict,
                   customers_to_visit, dir_to_be_removed_list, not_removed_list,
                   validated_removed_list, cleanup_status, out_msg, dirs_at_start>>

\* The customers of the configuration, the directories they have on the
\* off-site, and the order of the time stamps of the oldest entries.
InitRetention ==
    /\ \E n \in 1..NumCustomers : customer_config_dict = 1..n
    /\ oldest_entry \in {f \in [Tags -> Tags] : \A t, u \in Tags : f[t] = f[u] => t = u}
    /\ \E dirs \in [Customers -> [Tags -> DirStates]] :
         /\ \A c \in Customers \ customer_config_dict : \A t \in Tags : dirs[c][t] = "absent"
         /\ InitCleanup(dirs)
    /\ InitOffsite
    /\ InitUpload
    /\ InitDownloadSide
    /\ InitLookupIdle /\ InitSshIdle /\ InitRsyncManager
    /\ InitTimer
    /\ InitDriver
    /\ InitValidatorIdle
    /\ InitCallbacks
    /\ InitSortIdle
    /\ InitListIdle

NextRetention ==
    \/ execute_offsite_backup_cleanup
    \/ \E c \in Customers : get_backup_dir_list_to_cleanup(c)
    \/ clean_offsite_backup
    \/ report_cleanup

SpecRetention == InitRetention /\ [][NextRetention]_vars

\* ============================================================ timer_delay
\* what the decorated method ends with
MethodResults == {"returns", "raises"}

\* The Timer was started and its interval is over.
TimerIsDue == timer = "started" /\ clock >= max_delay

\* wrapper, lines 72-91: the keyword arguments are read; the Timer is
\* started only when max_delay is given and on_timeout is callable; the
\* decorated method is called.
timer_delay ==
    /\ td_pc = "idle"
    /\ \E delay \in {NoDelay} \cup (0..MaxDelay), callable \in BOOLEAN,
          duration \in 0..MaxDuration :
         /\ max_delay' = delay
         /\ on_timeout_is_callable' = callable
         /\ method_duration' = duration
         /\ timer' = IF callable /\ delay # NoDelay THEN "started" ELSE "none"
    /\ td_pc' = "running"
    /\ clock' = 0
    /\ method_done' = 0
    /\ method_result' = "none"
    /\ wrapper_result' = "none"
    /\ on_timeout_calls' = 0
    /\ UNCHANGED <<notTimerVars>>

\* One second of the decorated method; a Timer that is due runs first.
method_works ==
    /\ td_pc = "running"
    /\ method_done < method_duration
    /\ ~ TimerIsDue
    /\ clock' = clock + 1
    /\ method_done' = method_done + 1
    /\ UNCHANGED <<notTimerVars, max_delay,
                   on_timeout_is_callable, td_pc, timer, method_duration, method_result,
                   wrapper_result, on_timeout_calls>>

\* The mutant of on_timeout_function for C22: the Timer ends the call.
on_timeout_function_ends_the_call ==
    /\ TimerIsDue
    /\ timer' = "finished"
    /\ on_timeout_calls' = on_timeout_calls + 1
    /\ td_pc' = "raised"
    /\ wrapper_result' = "raises"
    /\ UNCHANGED <<notTimerVars, max_delay,
                   on_timeout_is_callable, clock, method_duration, method_done,
                   method_result>>

\* The thread of Timer(float(max_delay), on_timeout_function,
\* on_timeout_function_args), line 87: after the interval it calls the
\* function, once, and ends.
on_timeout_function ==
    /\ TimerIsDue
    /\ timer' = "finished"
    /\ on_timeout_calls' = on_timeout_calls + 1
    /\ UNCHANGED <<notTimerVars, max_delay,
                   on_timeout_is_callable, td_pc, clock, method_duration, method_done,
                   method_result, wrapper_result>>

\* method(*args, **kw) ends (lines 84 and 90): it returns or raises.
method_ends ==
    /\ td_pc = "running"
    /\ method_done = method_duration
    /\ \E result \in MethodResults : method_result' = result
    /\ td_pc' = "finally"
    /\ UNCHANGED <<notTimerVars, max_delay,
                   on_timeout_is_callable, clock, timer, method_duration, method_done,
                   wrapper_result, on_timeout_calls>>

\* The finally clause (lines 92-94) and the end of the wrapper: a Timer that
\* is alive is cancelled, what the method ended with goes to the caller.
timer_delay_finally ==
    /\ td_pc = "finally"
    /\ timer' = IF timer = "started" THEN "cancelled" ELSE timer
    /\ wrapper_result' = method_result
    /\ td_pc' = IF method_result = "raises" THEN "raised" ELSE "returned"
    /\ UNCHANGED <<notTimerVars, max_delay,
                   on_timeout_is_callable, clock, method_duration, method_done,
                   method_result, on_timeout_calls>>

InitTimerDelay == InitOffsite /\ InitUpload /\ InitDownloadSide /\ InitIdle

NextTimerDelay ==
    \/ timer_delay
    \/ method_works
    \/ on_timeout_function
    \/ method_ends
    \/ timer_delay_finally

SpecTimerDelay == InitTimerDelay /\ [][NextTimerDelay]_vars

\* =================================================================== main
SUCCESS_EXIT_CODE == 0

\* Enum(name, names): the members are numbered from 1 in the order of the
\* names.
EXIT_CODE_NAMES == <<"INVALID_INPUT", "FAILED_UPLOAD", "FAILED_DOWNLOAD", "FAILED_QUERY",
                     "FAILED_OFFSITE_CLEANUP", "FAILED_VALIDATION">>
SCRIPT_OPERATION_NAMES == <<"BKP_UPLOAD", "BKP_DOWNLOAD", "RETENTION", "SIZE">>

\* The mutant of EnumValue for C23: the members are numbered from 2.
EnumValue_from_two(names, name) == 1 + CHOOSE i \in DOMAIN names : names[i] = name

\* The value of a member of an Enum.
EnumValue(names, name) == CHOOSE i \in DOMAIN names : names[i] = name

EXIT_CODES(name) == EnumValue(EXIT_CODE_NAMES, name)
SCRIPT_OPERATIONS(name) == EnumValue(SCRIPT_OPERATION_NAMES, name)

\* The status argparse exits with when it rejects the command line, and the
\* status of an interpreter that ends with an exception nobody caught.
ARGPARSE_ERROR_STATUS == 2
UNCAUGHT_EXCEPTION_STATUS == 1

\* validate_script_option_argument: the operations from 1 up to, and not
\* including, SIZE.
ValidOperations == 1..(SCRIPT_OPERATIONS("SIZE") - 1)

\* sys.exit(code), also through log_error_exit
Exit(how, code) ==
    /\ main_pc' = "exited"
    /\ ended_by' = how
    /\ sys_exit' = code

\* the --customer_name argument: none, a section of the configuration file,
\* a name the configuration file does not have
CustomerNames == {"", "known", "unknown"}

\* main up to the validation of the configuration (lines 82-98): the
\* arguments are parsed and validated; --usage and --version end the run.
main ==
    /\ main_pc = "idle"
    /\ \E parsed \in {"ok", "argparse error", "BurException"}, usage_or_version, backup_tag \in BOOLEAN,
          option \in ValidOperations, name \in CustomerNames,
          number_of_customers \in 1..NumCustomers :
         IF parsed = "argparse error"
         THEN /\ Exit("argparse error", ARGPARSE_ERROR_STATUS)
              /\ UNCHANGED <<script_option, has_backup_tag, customer_name_arg, customers_left>>
         ELSE IF parsed = "BurException"
         THEN /\ Exit("invalid input", EXIT_CODES("INVALID_INPUT"))
              /\ UNCHANGED <<script_option, has_backup_tag, customer_name_arg, customers_left>>
         ELSE IF usage_or_version
         THEN /\ Exit("success", SUCCESS_EXIT_CODE)
              /\ UNCHANGED <<script_option, has_backup_tag, customer_name_arg, customers_left>>
         ELSE /\ main_pc' = "validation"
              /\ script_option' = option
              /\ has_backup_tag' = backup_tag
              /\ customer_name_arg' = name
              /\ customers_left' = number_of_customers
              /\ UNCHANGED <<ended_by, sys_exit>>
    /\ UNCHANGED <<notDriverVars, is_success>>

\* get_customer_config_dict and validate_bur_operation_arguments: a customer
\* name without a section, and an upload of a tag without a customer name,
\* are refused.
ArgumentsAreRefused ==
    \/ customer_name_arg = "unknown"
    \/ /\ script_option = SCRIPT_OPERATIONS("BKP_UPLOAD")
       /\ has_backup_tag
       /\ customer_name_arg = ""

\* execute_validation_input: a BurException of the validation of the
\* configuration or of the arguments ends the run with FAILED_VALIDATION;
\* with a customer name the configuration is loaded for that customer only.
execute_validation_input ==
    /\ main_pc = "validation"
    /\ \E configuration_is_valid \in BOOLEAN :
         IF configuration_is_valid /\ ~ ArgumentsAreRefused
         THEN /\ main_pc' = "operation"
              /\ customers_left' = IF customer_name_arg = "" THEN customers_left ELSE 1
              /\ UNCHANGED <<ended_by, sys_exit>>
         ELSE /\ Exit("failed validation", EXIT_CODES("FAILED_VALIDATION"))
              /\ UNCHANGED customers_left
    /\ UNCHANGED <<notDriverVars,
                   script_option, has_backup_tag, customer_name_arg, is_success>>

\* One iteration of the loop of execute_backup_upload (lines 208-258): a
\* BurException of the upload of a customer is reported and the loop goes
\* on; the clean up after the upload ends the run itself when it fails.
execute_backup_upload ==
    /\ main_pc = "operation"
    /\ script_option = SCRIPT_OPERATIONS("BKP_UPLOAD")
    /\ customers_left > 0
    /\ \E outcome \in {"ok", "BurException", "cleanup failed"} :
         IF outcome = "cleanup failed"
         THEN /\ Exit("failed retention", EXIT_CODES("FAILED_OFFSITE_CLEANUP"))
              /\ UNCHANGED <<customers_left, is_success>>
         ELSE /\ customers_left' = customers_left - 1
              /\ is_success' = (is_success /\ outcome = "ok")
              /\ UNCHANGED <<main_pc, ended_by, sys_exit>>
    /\ UNCHANGED <<notDriverVars,
                   script_option, has_backup_tag, customer_name_arg>>

\* execute_backup_upload after the loop (lines 261-264) and the end of main.
execute_backup_upload_end ==
    /\ main_pc = "operation"
    /\ script_option = SCRIPT_OPERATIONS("BKP_UPLOAD")
    /\ customers_left = 0
    /\ IF is_success
       THEN Exit("success", SUCCESS_EXIT_CODE)
       ELSE Exit("failed upload", EXIT_CODES("FAILED_UPLOAD"))
    /\ UNCHANGED <<notDriverVars,
                   script_option, has_backup_tag, customer_name_arg, customers_left, is_success>>

\* execute_backup_download, for a run with a backup tag.
execute_backup_download ==
    /\ main_pc = "operation"
    /\ script_option = SCRIPT_OPERATIONS("BKP_DOWNLOAD")
    /\ has_backup_tag
    /\ \E outcome \in {"ok", "BurException"} :
         IF outcome = "ok"
         THEN Exit("success", SUCCESS_EXIT_CODE)
         ELSE Exit("failed download", EXIT_CODES("FAILED_DOWNLOAD"))
    /\ UNCHANGED <<notDriverVars,
                   script_option, has_backup_tag, customer_name_arg, customers_left, is_success>>

\* execute_backup_query, for a run without a backup tag: a customer name
\* that is not in the configuration ends the run with FAILED_QUERY; the
\* listing of get_offsite_backup_dict raises an IndexError, which nothing
\* catches, when its ssh command gives no output for several customers.
execute_backup_query ==
    /\ main_pc = "operation"
    /\ script_option = SCRIPT_OPERATIONS("BKP_DOWNLOAD")
    /\ ~ has_backup_tag
    /\ IF customer_name_arg = "unknown"
       THEN Exit("failed query", EXIT_CODES("FAILED_QUERY"))
       ELSE \E ssh_answered \in BOOLEAN :
              IF ~ ssh_answered /\ customers_left > 1
              THEN Exit("uncaught exception", UNCAUGHT_EXCEPTION_STATUS)
              ELSE Exit("success", SUCCESS_EXIT_CODE)
    /\ UNCHANGED <<notDriverVars,
                   script_option, has_backup_tag, customer_name_arg, customers_left, is_success>>

\* The retention operation of main (lines 137-144):
\* execute_offsite_backup_cleanup ends the run with FAILED_OFFSITE_CLEANUP
\* when clean_offsite_backup returned False; an exception of
\* clean_offsite_backup is caught nowhere.
main_retention ==
    /\ main_pc = "operation"
    /\ script_option = SCRIPT_OPERATIONS("RETENTION")
    /\ \E status \in {"true", "false", "raised"} :
         IF status = "true"
         THEN Exit("success", SUCCESS_EXIT_CODE)
         ELSE IF status = "false"
         THEN Exit("failed retention", EXIT_CODES("FAILED_OFFSITE_CLEANUP"))
         ELSE Exit("uncaught exception", UNCAUGHT_EXCEPTION_STATUS)
    /\ UNCHANGED <<notDriverVars,
                   script_option, has_backup_tag, customer_name_arg, customers_left, is_success>>

InitMain == InitOffsite /\ InitUpload /\ InitDownloadSide /\ InitIdle

NextMain ==
    \/ main
    \/ execute_validation_input
    \/ execute_backup_upload
    \/ execute_backup_upload_end
    \/ execute_backup_download
    \/ execute_backup_query
    \/ main_retention

SpecMain == InitMain /\ [][NextMain]_vars

\* ------------------------------------------- the two operations of main

\* main has parsed its arguments and validated the configuration, and is
\* about to dispatch the operation (lines 100-112).
InitDispatched(operation) ==
    /\ main_pc = "operation"
    /\ script_option = SCRIPT_OPERATIONS(operation)
    /\ has_backup_tag = TRUE
    /\ customer_name_arg = "known"
    /\ customers_left = 1
    /\ is_success = TRUE
    /\ ended_by = "none"
    /\ sys_exit = NotExited

\* A run is one operation: an upload to an empty off-site, or a download
\* from an off-site left by uploads.
InitOperation ==
    /\ InitUpload /\ InitDownloadSide
    /\ InitLookupIdle /\ InitSshIdle /\ InitRsyncManager /\ InitRetentionSide /\ InitTimer /\ InitValidatorIdle
    /\ InitCallbacks /\ InitSortIdle /\ InitListIdle
    /\ \/ InitDispatched("BKP_UPLOAD") /\ InitOffsite
       \/ InitDispatched("BKP_DOWNLOAD") /\ InitOffsiteLeftByUploads

\* The handler the operation of the run dispatches to.
NextOperation ==
    \/ script_option = SCRIPT_OPERATIONS("BKP_UPLOAD") /\ Next
    \/ script_option = SCRIPT_OPERATIONS("BKP_DOWNLOAD") /\ NextDownload

SpecOperation == InitOperation /\ [][NextOperation]_vars

\* ================================================ validate_number_of_processors
\* The mutant of validate_number_of_processors for C24: the default is
\* returned as it is.
validate_number_of_processors_returns_default(arg, cores) ==
    IF ~ arg.parses THEN DEFAULT_NUM_PROCESSORS
    ELSE IF arg.number <= 0 \/ arg.number > cores THEN cores
    ELSE arg.number

\* validate_number_of_processors (lines 442-465): a value int() does not
\* parse is replaced by DEFAULT_NUM_PROCESSORS; then a value that is not
\* positive or is above the available cores is replaced by the available
\* cores.
validate_number_of_processors(arg, cores) ==
    LET num == IF arg.parses THEN arg.number ELSE DEFAULT_NUM_PROCESSORS
    IN  IF num <= 0 \/ num > cores THEN cores ELSE num

\* validate_input_arguments, lines 247-248
validate_input_arguments ==
    /\ np_pc = "idle"
    /\ num_processors_to_use' = validate_number_of_processors(num_processors_arg, available_cores)
    /\ np_pc' = "validated"
    /\ UNCHANGED <<notValidatorVars, num_processors_arg, available_cores>>

InitValidation ==
    /\ InitOffsite /\ InitUpload /\ InitDownloadSide
    /\ InitLookupIdle /\ InitSshIdle /\ InitRsyncManager /\ InitRetentionSide /\ InitTimer /\ InitDriver
    /\ InitValidator
    /\ InitCallbacks
    /\ InitSortIdle
    /\ InitListIdle

SpecValidation == InitValidation /\ [][validate_input_arguments]_vars

\* ===================================================== threads of the pools
\* A pool hands its results to the callbacks from one thread of the main
\* process, one result after the other: the thread is free when no callback
\* of the pool is running.
HandlerIsFree(pool) == \A c \in callbacks : c.pool # pool

Callback(pool, v, at) == [pool |-> pool, volume |-> v, at |-> at]

\* process_backup, lines 276-285: the next volume is submitted to the
\* process pool.
apply_async_process_volume ==
    /\ cb_main = "submit"
    /\ cb_submitted < NumVolumes
    /\ cb_submitted' = cb_submitted + 1
    /\ cb_stage' = [cb_stage EXCEPT ![cb_submitted + 1] = "process"]
    /\ UNCHANGED <<cb_main, cb_status, callbacks, cb_output_dict, cb_writes>>
    /\ UNCHANGED notCallbackVars

\* A worker of the process pool ends process_volume: its result is queued
\* for the callback, or the worker ended abnormally and there is no result.
worker_process_volume ==
    /\ \E v \in Volumes, outcome \in {"success", "failure", "lost"} :
         /\ cb_stage[v] = "process"
         /\ cb_stage' = [cb_stage EXCEPT ![v] = IF outcome = "lost" THEN "lost"
                                                ELSE "processed"]
         /\ cb_status' = [cb_status EXCEPT ![v] = (outcome = "success")]
    /\ UNCHANGED <<cb_main, cb_submitted, callbacks, cb_output_dict, cb_writes>>
    /\ UNCHANGED notCallbackVars

\* The thread of the process pool calls on_volume_ready with a result.
call_on_volume_ready ==
    /\ HandlerIsFree("process")
    /\ \E v \in Volumes :
         /\ cb_stage[v] = "processed"
         /\ cb_stage' = [cb_stage EXCEPT ![v] = "ready"]
         /\ callbacks' = callbacks \cup {Callback("process", v, "called")}
    /\ UNCHANGED <<cb_main, cb_submitted, cb_status, cb_output_dict, cb_writes>>
    /\ UNCHANGED notCallbackVars

\* The mutant of run_on_volume_ready for C27: the entry of the volume is
\* written for a processed volume too.
run_on_volume_ready_always_writes ==
    /\ \E c \in callbacks :
         /\ c.pool = "process"
         /\ c.at = "called"
         /\ cb_stage' = [cb_stage EXCEPT ![c.volume] =
                            IF cb_status[c.volume] THEN "transfer" ELSE "failed"]
         /\ callbacks' = (callbacks \ {c}) \cup {Callback("process", c.volume, "setitem")}
    /\ UNCHANGED <<cb_main, cb_submitted, cb_status, cb_output_dict, cb_writes>>
    /\ UNCHANGED notCallbackVars

\* on_volume_ready, lines 470-498: a processed volume is submitted to the
\* transfer pool and the callback returns; for a failed one the callback
\* goes on to write its entry of backup_output_dict.
run_on_volume_ready ==
    /\ \E c \in callbacks :
         /\ c.pool = "process"
         /\ c.at = "called"
         /\ IF cb_status[c.volume]
            THEN /\ cb_stage' = [cb_stage EXCEPT ![c.volume] = "transfer"]
                 /\ callbacks' = callbacks \ {c}
            ELSE /\ cb_stage' = [cb_stage EXCEPT ![c.volume] = "failed"]
                 /\ callbacks' = (callbacks \ {c}) \cup
                                    {Callback("process", c.volume, "setitem")}
    /\ UNCHANGED <<cb_main, cb_submitted, cb_status, cb_output_dict, cb_writes>>
    /\ UNCHANGED notCallbackVars

\* A worker of the transfer pool ends transfer_backup_volume_to_offsite.
worker_transfer_backup_volume ==
    /\ \E v \in Volumes, outcome \in {"success", "failure", "lost"} :
         /\ cb_stage[v] = "transfer"
         /\ cb_stage' = [cb_stage EXCEPT ![v] = IF outcome = "lost" THEN "lost"
                                                ELSE "transferred"]
         /\ cb_status' = [cb_status EXCEPT ![v] = (outcome = "success")]
    /\ UNCHANGED <<cb_main, cb_submitted, callbacks, cb_output_dict, cb_writes>>
    /\ UNCHANGED notCallbackVars

\* The thread of the transfer pool calls on_volume_transferred with a
\* result; lines 507-512: the callback goes on to write the entry of the
\* volume.
call_on_volume_transferred ==
    /\ HandlerIsFree("transfer")
    /\ \E v \in Volumes :
         /\ cb_stage[v] = "transferred"
         /\ cb_stage' = [cb_stage EXCEPT ![v] = "done"]
         /\ callbacks' = callbacks \cup {Callback("transfer", v, "setitem")}
    /\ UNCHANGED <<cb_main, cb_submitted, cb_status, cb_output_dict, cb_writes>>
    /\ UNCHANGED notCallbackVars

\* self.backup_output_dict[volume_name] = volume_output (lines 496 and 512):
\* the manager of the dictionary stores the entry and the callback returns.
setitem_backup_output_dict ==
    /\ \E c \in callbacks :
         /\ c.at = "setitem"
         /\ cb_output_dict' = [cb_output_dict EXCEPT ![c.volume] =
                                  IF cb_status[c.volume] /\ c.pool = "transfer"
                                  THEN "ok" ELSE "failed"]
         /\ cb_writes' = [cb_writes EXCEPT ![c.volume] = @ + 1]
         /\ callbacks' = callbacks \ {c}
    /\ UNCHANGED <<cb_main, cb_submitted, cb_stage, cb_status>>
    /\ UNCHANGED notCallbackVars

\* process_backup, lines 286-287: close and join of the process pool return
\* when every task has ended and the thread of the pool has handled every
\* result.
join_process_pool_threads ==
    /\ cb_main = "submit"
    /\ cb_submitted = NumVolumes
    /\ \A v \in Volumes : cb_stage[v] \notin {"process", "processed"}
    /\ HandlerIsFree("process")
    /\ cb_main' = "process_joined"
    /\ UNCHANGED <<cb_submitted, cb_stage, cb_status, callbacks, cb_output_dict, cb_writes>>
    /\ UNCHANGED notCallbackVars

\* process_backup, lines 289-292: close and join of the transfer pool, then
\* check_backup_output_errors reads the dictionary.
join_transfer_pool_threads ==
    /\ cb_main = "process_joined"
    /\ \A v \in Volumes : cb_stage[v] \notin {"transfer", "transferred"}
    /\ HandlerIsFree("transfer")
    /\ cb_main' = "checked"
    /\ UNCHANGED <<cb_submitted, cb_stage, cb_status, callbacks, cb_output_dict, cb_writes>>
    /\ UNCHANGED notCallbackVars

InitThreads ==
    /\ InitOffsite /\ InitUpload /\ InitDownloadSide
    /\ InitLookupIdle /\ InitSshIdle /\ InitRsyncManager /\ InitRetentionSide /\ InitTimer /\ InitDriver /\ InitValidatorIdle
    /\ InitCallbacks /\ InitSortIdle /\ InitListIdle

NextThreads ==
    \/ apply_async_process_volume
    \/ worker_process_volume
    \/ call_on_volume_ready
    \/ run_on_volume_ready
    \/ worker_transfer_backup_volume
    \/ call_on_volume_transferred
    \/ setitem_backup_output_dict
    \/ join_process_pool_threads
    \/ join_transfer_pool_threads

SpecThreads == InitThreads /\ [][NextThreads]_vars

\* ============================================ sort_remote_folders_by_content
\* Paths are sequences of names; the folder f is <<f>>.
os_path_dirname(path) == SubSeq(path, 1, Len(path) - 1)

\* The words of the part of stdout that belongs to folder f (lines 286-301):
\* nothing for a folder without entries, else the time stamp and the path of
\* its oldest entry; a path with a blank makes two words.
find_cmd_result_split(f) ==
    LET entry == folder_content[f]
    IN  CASE entry.kind = "none" -> <<>>
          [] entry.kind = "direct" -> <<entry.stamp, <<f, "oldest_file">>>>
          [] entry.kind = "nested" -> <<entry.stamp, <<f, "sub_folder", "oldest_file">>>>
          [] entry.kind = "blank" -> <<entry.stamp, <<f, "oldest">>, <<"file">>>>

\* line 303: a part that has not exactly two words ends the call with
\* ErrorSortingOffsiteBackupList.
ParseError(folders) ==
    \E i \in DOMAIN folders :
        LET words == find_cmd_result_split(folders[i])
        IN  words # <<>> /\ Len(words) # 2

\* lines 295-310: one pair (folder of the entry, time stamp) for every part
\* that is not blank, in the order of the argument.
RECURSIVE file_timestamp_list(_)
file_timestamp_list(folders) ==
    IF folders = <<>> THEN <<>>
    ELSE LET words == find_cmd_result_split(Head(folders))
         IN  (IF words = <<>> THEN <<>>
              ELSE <<<<os_path_dirname(words[2]), words[1]>>>>)
             \o file_timestamp_list(Tail(folders))

\* list.sort(key=lambda elem: elem[1], reverse=True), line 315: the newest
\* first; pairs with the same time stamp keep their order.
RECURSIVE InsertByStamp(_, _)
InsertByStamp(elem, sorted) ==
    IF sorted = <<>> THEN <<elem>>
    ELSE IF Head(sorted)[2] >= elem[2]
         THEN <<Head(sorted)>> \o InsertByStamp(elem, Tail(sorted))
         ELSE <<elem>> \o sorted

RECURSIVE list_sort_reverse(_)
list_sort_reverse(list) ==
    IF list = <<>> THEN <<>>
    ELSE InsertByStamp(list[Len(list)], list_sort_reverse(SubSeq(list, 1, Len(list) - 1)))

\* sort_remote_folders_by_content, lines 278-318: one ssh command for all
\* folders; an answer on the error stream or a part that cannot be parsed
\* raises, else the folders of the oldest entries are returned, newest first.
sort_remote_folders ==
    /\ sort_pc = "idle"
    /\ \E ssh_answered \in BOOLEAN :
         IF remote_folder_list = <<>>
         THEN /\ sorted_folder_list' = <<>>
              /\ sort_raised' = FALSE
         ELSE IF ~ ssh_answered \/ ParseError(remote_folder_list)
         THEN /\ sorted_folder_list' = <<>>
              /\ sort_raised' = TRUE
         ELSE /\ sorted_folder_list' =
                     LET list == list_sort_reverse(file_timestamp_list(remote_folder_list))
                     IN  [i \in DOMAIN list |-> list[i][1]]
              /\ sort_raised' = FALSE
    /\ sort_pc' = "done"
    /\ UNCHANGED <<folder_content, remote_folder_list>>
    /\ UNCHANGED notSortVars

InitSorting ==
    /\ InitOffsite /\ InitUpload /\ InitDownloadSide
    /\ InitLookupIdle /\ InitSshIdle /\ InitRsyncManager /\ InitRetentionSide /\ InitTimer /\ InitDriver /\ InitValidatorIdle
    /\ InitCallbacks
    /\ InitSort
    /\ InitListIdle

SpecSort == InitSorting /\ [][sort_remote_folders]_vars

\* ==================================================== get_local_backup_list
\* lines 701-714: the entries of the listing that are no files and pass
\* validate_backup_per_volume, in the order of the listing.
IsValidBackup(backup_folder) == entry_kind[backup_folder] = "valid"

valid_dir_list == SelectSeq(customer_tags, IsValidBackup)

\* The mutant of InsertByMtime for C30: the newest backup comes first.
RECURSIVE InsertByMtime_newest_first(_, _)
InsertByMtime_newest_first(backup_folder, sorted) ==
    IF sorted = <<>> THEN <<backup_folder>>
    ELSE IF entry_mtime[Head(sorted)] >= entry_mtime[backup_folder]
         THEN <<Head(sorted)>> \o InsertByMtime_newest_first(backup_folder, Tail(sorted))
         ELSE <<backup_folder>> \o sorted

\* valid_dir_list.sort(key=os.path.getmtime), line 716: the oldest first;
\* backups of the same time keep the order of the listing.
RECURSIVE InsertByMtime(_, _)
InsertByMtime(backup_folder, sorted) ==
    IF sorted = <<>> THEN <<backup_folder>>
    ELSE IF entry_mtime[Head(sorted)] <= entry_mtime[backup_folder]
         THEN <<Head(sorted)>> \o InsertByMtime(backup_folder, Tail(sorted))
         ELSE <<backup_folder>> \o sorted

RECURSIVE sort_by_getmtime(_)
sort_by_getmtime(list) ==
    IF list = <<>> THEN <<>>
    ELSE InsertByMtime(list[Len(list)], sort_by_getmtime(SubSeq(list, 1, Len(list) - 1)))

\* get_local_backup_list: None when the backup path does not exist (the
\* caller tests the result with `not`, as it does the empty list, so the
\* empty list stands for None), else the valid backups sorted by time.
get_local_backup_list(source_dir_exists) ==
    IF source_dir_exists THEN sort_by_getmtime(valid_dir_list) ELSE <<>>

\* `backup_tag in valid_onsite_backups_list`
InList(backup_folder, list) == \E i \in DOMAIN list : list[i] = backup_folder

\* process_backup_list, lines 134-141: get_and_validate_onsite_backups_list
\* (lines 186-197), then validate_create_offsite_onsite_base_paths.
get_onsite_backups_list ==
    /\ list_pc = "idle"
    /\ \E backup_tag \in {0} \cup Entries, source_dir_exists \in BOOLEAN,
          base_paths \in {"ok", "CannotCreatePath"} :
         LET list == get_local_backup_list(source_dir_exists)
         IN  /\ tag_argument' = backup_tag
             /\ IF list = <<>>
                THEN /\ list_raised' = "NoBackupsToProcess"
                     /\ list_pc' = "raised"
                     /\ UNCHANGED valid_onsite_backups_list
                ELSE IF backup_tag # 0 /\ ~ InList(backup_tag, list)
                THEN /\ list_raised' = "NoSuchBackupTag"
                     /\ list_pc' = "raised"
                     /\ UNCHANGED valid_onsite_backups_list
                ELSE /\ valid_onsite_backups_list' =
                            IF backup_tag # 0 THEN <<backup_tag>> ELSE list
                     /\ IF base_paths = "ok"
                        THEN /\ list_pc' = "loop"
                             /\ UNCHANGED list_raised
                        ELSE /\ list_pc' = "raised"
                             /\ list_raised' = "CannotCreatePath"
    /\ UNCHANGED <<customer_tags, entry_kind, entry_mtime, processed_backups, failed_backups>>
    /\ UNCHANGED notListVars

\* One turn of the loop of process_backup_list, lines 142-166: the next
\* backup of the list is processed; an UploadBackupException is kept for the
\* end.
process_current_backup ==
    /\ list_pc = "loop"
    /\ Len(processed_backups) < Len(valid_onsite_backups_list)
    /\ \E outcome \in {"ok", "UploadBackupException"} :
         LET current_backup_folder_name ==
                 valid_onsite_backups_list[Len(processed_backups) + 1]
         IN  /\ processed_backups' = Append(processed_backups, current_backup_folder_name)
             /\ failed_backups' = IF outcome = "ok" THEN failed_backups
                                  ELSE Append(failed_backups, current_backup_folder_name)
    /\ UNCHANGED <<customer_tags, entry_kind, entry_mtime, tag_argument, list_pc,
                   valid_onsite_backups_list, list_raised>>
    /\ UNCHANGED notListVars

\* lines 168-173: after the last backup the list is returned, or
\* ProcessBackupListErrors is raised.
return_local_backup_list ==
    /\ list_pc = "loop"
    /\ Len(processed_backups) = Len(valid_onsite_backups_list)
    /\ list_pc' = IF failed_backups = <<>> THEN "returned" ELSE "raised"
    /\ list_raised' = IF failed_backups = <<>> THEN "none" ELSE "ProcessBackupListErrors"
    /\ UNCHANGED <<customer_tags, entry_kind, entry_mtime, tag_argument,
                   valid_onsite_backups_list, processed_backups, failed_backups>>
    /\ UNCHANGED notListVars

InitBackupList ==
    /\ InitOffsite /\ InitUpload /\ InitDownloadSide
    /\ InitLookupIdle /\ InitSshIdle /\ InitRsyncManager /\ InitRetentionSide /\ InitTimer /\ InitDriver /\ InitValidatorIdle
    /\ InitCallbacks /\ InitSortIdle
    /\ InitList

NextBackupList ==
    \/ get_onsite_backups_list
    \/ process_current_backup
    \/ return_local_backup_list

SpecBackupList == InitBackupList /\ [][NextBackupList]_vars

\* ============================= execute_download_backup_from_offsite
TagChars == {"a", "b"}
MaxTagLen == 2
MaxListed == 2

\* The names a backup directory can have, and the values of --backup_tag.
TagNames == UNION { [1..n -> TagChars] : n \in 1..MaxTagLen }
TagQueries == TagNames \cup { <<>> }
CustomerQueries == ConfiguredCustomers \cup { <<>>, <<"x">> }

\* What `ls -dt` can list under the folder of a customer: directories with
\* different names, the newest first.
Listings ==
    { l \in UNION { [1..n -> TagNames] : n \in 0..MaxListed } :
        \A i, j \in DOMAIN l : l[i] = l[j] => i = j }

\* remote_root_backup_path, and the path of a backup directory as
\* split_folder_list gives it (the trailing slash cut).
RemoteRootBackupPath == <<"/", "r">>
BackupDirPath(name, backup) == RemoteRootBackupPath \o <<"/">> \o name \o <<"/">> \o backup

\* The last component of a path.
Basename(path) ==
    LET slashes == {i \in DOMAIN path : path[i] = "/"}
        last == IF slashes = {} THEN 0 ELSE CHOOSE i \in slashes : \A j \in slashes : j <= i
    IN SubSeq(path, last + 1, Len(path))

\* Python's `query in item` on two strings.
IsSubstring(query, item) ==
    \E i \in 0..(Len(item) - Len(query)) : SubSeq(item, i + 1, i + Len(query)) = query

\* The test of find_elem_dict (line 46).
Matches(query, item) == IsSubstring(query, item)

\* find_elem_dict: the first item, in the order the keys and the items are
\* gone through, the query matches; ("", "") when the query is blank or
\* nothing matches.  dic is a sequence of records [key, items].
RECURSIVE find_elem_dict(_, _)
find_elem_dict(dic, query) ==
    IF query = <<>> \/ dic = <<>> THEN [key |-> <<>>, item |-> <<>>]
    ELSE LET items == Head(dic).items
             hits == {i \in DOMAIN items : Matches(query, items[i])}
         IN IF hits # {}
            THEN [key |-> Head(dic).key,
                  item |-> items[CHOOSE i \in hits : \A j \in hits : i <= j]]
            ELSE find_elem_dict(Tail(dic), query)

\* get_values_from_dict: the customers a name selects; no name selects
\* all, an unknown name raises ElementNotFound.
get_values_from_dict(name) ==
    IF name = <<>> THEN ConfiguredCustomers
    ELSE IF name \in ConfiguredCustomers THEN {name}
    ELSE {}

\* The orders in which a dict can give the selected customers.
OrdersOf(selected) ==
    { o \in [1..Cardinality(selected) -> selected] : \A i, j \in DOMAIN o : o[i] = o[j] => i = j }

\* customer_backup_dict (line 155), what get_offsite_backup_dict returns:
\* the paths listed for every selected customer.
customer_backup_dict(order) ==
    [i \in DOMAIN order |->
       [key |-> order[i],
        items |-> IF listing_answered
                  THEN [k \in DOMAIN offsite_listing[order[i]] |->
                          BackupDirPath(order[i], offsite_listing[order[i]][k])]
                  ELSE <<>>]]

\* A call starts with any off-site and any arguments.
InitResolve ==
    /\ offsite_listing \in [ConfiguredCustomers -> Listings]
    /\ listing_answered \in BOOLEAN
    /\ customer_name_query \in CustomerQueries
    /\ backup_tag_query \in TagQueries
    /\ resolve_pc = "idle"
    /\ resolve_error = "none"
    /\ resolved_customer_name = <<>>
    /\ backup_path_to_be_retrieved = <<>>
    /\ InitOffsite /\ InitUpload /\ InitDownloadSide
    /\ InitSshIdle /\ InitRsyncManager /\ InitRetentionSide /\ InitTimer /\ InitDriver
    /\ InitValidatorIdle /\ InitCallbacks /\ InitSortIdle /\ InitListIdle

ResolveFails(kind) ==
    /\ resolve_pc' = "failed"
    /\ resolve_error' = kind
    /\ UNCHANGED <<resolved_customer_name, backup_path_to_be_retrieved>>

\* execute_download_backup_from_offsite, lines 151-165: the tag is looked
\* up and download_process_backup is called with the path found.
execute_download_backup_from_offsite ==
    /\ resolve_pc = "idle"
    /\ LET selected == get_values_from_dict(customer_name_query) IN
       IF backup_tag_query = <<>> THEN ResolveFails("EmptyValue")
       ELSE IF selected = {} THEN ResolveFails("ElementNotFound")
       ELSE IF ~ listing_answered /\ Cardinality(selected) > 1 THEN ResolveFails("IndexError")
       ELSE \E order \in OrdersOf(selected) :
              LET found == find_elem_dict(customer_backup_dict(order), backup_tag_query) IN
              IF found.item = <<>> THEN ResolveFails("NoSuchBackupTag")
              ELSE /\ resolve_pc' = "downloading"
                   /\ resolved_customer_name' = found.key
                   /\ backup_path_to_be_retrieved' = found.item
                   /\ UNCHANGED resolve_error
    /\ UNCHANGED <<offsite_listing, listing_answered, customer_name_query, backup_tag_query>>
    /\ UNCHANGED notLookupVars

SpecResolve == InitResolve /\ [][execute_download_backup_from_offsite]_vars

\* ===================================================== run_ssh_command
MaxSshTimeout == 3
MaxSshDuration == 4

\* A call starts with any arguments and any remote command.
InitSsh ==
    /\ ssh_blank \in BOOLEAN
    /\ ssh_timeout \in 1..MaxSshTimeout
    /\ command_duration \in 1..MaxSshDuration
    /\ ssh_pc = "idle"
    /\ ssh_clock = 0
    /\ ssh_process = "none"
    /\ ssh_timer = "none"
    /\ timer_was_alive = TRUE
    /\ ssh_stdout = "none"
    /\ ssh_stderr = "none"
    /\ late_kills = 0
    /\ InitOffsite /\ InitUpload /\ InitDownloadSide
    /\ InitLookupIdle /\ InitRsyncManager /\ InitRetentionSide /\ InitTimer /\ InitDriver
    /\ InitValidatorIdle /\ InitCallbacks /\ InitSortIdle /\ InitListIdle

\* Thread.is_alive() of the Timer: true from start() until run() has ended.
is_alive == ssh_timer \in {"waiting", "firing", "fired", "cancelled"}

\* run_ssh_command, lines 31-41: blank arguments return at once; otherwise
\* ssh is started, the Timer is started and communicate() begins.
run_ssh_command ==
    /\ ssh_pc = "idle"
    /\ IF ssh_blank
       THEN /\ ssh_pc' = "returned"
            /\ ssh_stdout' = "empty"
            /\ ssh_stderr' = "empty"
            /\ UNCHANGED <<ssh_process, ssh_timer>>
       ELSE /\ ssh_process' = "running"
            /\ ssh_timer' = "waiting"
            /\ ssh_pc' = "communicating"
            /\ UNCHANGED <<ssh_stdout, ssh_stderr>>
    /\ UNCHANGED <<ssh_blank, ssh_timeout, command_duration, ssh_clock, timer_was_alive,
                   late_kills>>
    /\ UNCHANGED notSshVars

\* A second passes while the command runs and the Timer waits.
ssh_second_passes ==
    /\ ssh_pc = "communicating"
    /\ ssh_process = "running" /\ ssh_clock < command_duration
    /\ ssh_timer = "waiting" /\ ssh_clock < ssh_timeout
    /\ ssh_clock' = ssh_clock + 1
    /\ UNCHANGED <<ssh_blank, ssh_timeout, command_duration, ssh_pc, ssh_process, ssh_timer,
                   timer_was_alive, ssh_stdout, ssh_stderr, late_kills>>
    /\ UNCHANGED notSshVars

\* The remote command ends and ssh exits.
ssh_exits ==
    /\ ssh_process = "running"
    /\ ssh_clock >= command_duration
    /\ ssh_process' = "exited"
    /\ UNCHANGED <<ssh_blank, ssh_timeout, command_duration, ssh_pc, ssh_clock, ssh_timer,
                   timer_was_alive, ssh_stdout, ssh_stderr, late_kills>>
    /\ UNCHANGED notSshVars

\* threading.Timer.run: the wait of the interval ends and the Timer was
\* not cancelled.
timer_wakes ==
    /\ ssh_timer = "waiting"
    /\ ssh_clock >= ssh_timeout
    /\ ssh_timer' = "firing"
    /\ UNCHANGED <<ssh_blank, ssh_timeout, command_duration, ssh_pc, ssh_clock, ssh_process,
                   timer_was_alive, ssh_stdout, ssh_stderr, late_kills>>
    /\ UNCHANGED notSshVars

\* The function of the Timer (line 37): process.kill().
timer_kills ==
    /\ ssh_timer = "firing"
    /\ ssh_timer' = "fired"
    /\ IF ssh_process = "running"
       THEN ssh_process' = "killed" /\ UNCHANGED late_kills
       ELSE late_kills' = 1 /\ UNCHANGED ssh_process
    /\ UNCHANGED <<ssh_blank, ssh_timeout, command_duration, ssh_pc, ssh_clock,
                   timer_was_alive, ssh_stdout, ssh_stderr>>
    /\ UNCHANGED notSshVars

\* threading.Timer.run returns and the thread ends.
timer_thread_ends ==
    /\ ssh_timer \in {"fired", "cancelled"}
    /\ ssh_timer' = "dead"
    /\ UNCHANGED <<ssh_blank, ssh_timeout, command_duration, ssh_pc, ssh_clock, ssh_process,
                   timer_was_alive, ssh_stdout, ssh_stderr, late_kills>>
    /\ UNCHANGED notSshVars

\* ssh.communicate(command) returns (line 41) once the process has ended:
\* the output of the command, or what a killed ssh had written.
communicate_returns ==
    /\ ssh_pc = "communicating"
    /\ ssh_process \in {"exited", "killed"}
    /\ ssh_stdout' = IF ssh_process = "exited" THEN "command" ELSE "partial"
    /\ ssh_stderr' = IF ssh_process = "exited" THEN "command" ELSE "partial"
    /\ ssh_pc' = "finally"
    /\ UNCHANGED <<ssh_blank, ssh_timeout, command_duration, ssh_clock, ssh_process, ssh_timer,
                   timer_was_alive, late_kills>>
    /\ UNCHANGED notSshVars

\* The finally block, lines 43-44: a Timer that is not alive is taken for a
\* timeout.
ssh_finally ==
    /\ ssh_pc = "finally"
    /\ timer_was_alive' = is_alive
    /\ ssh_stderr' = IF ~ is_alive THEN "timeout" ELSE ssh_stderr
    /\ ssh_pc' = "cancel"
    /\ UNCHANGED <<ssh_blank, ssh_timeout, command_duration, ssh_clock, ssh_process, ssh_timer,
                   ssh_stdout, late_kills>>
    /\ UNCHANGED notSshVars

\* timer.cancel() (line 45) and the return (line 47).  A Timer that is past
\* its wait is not stopped by cancel().
timer_cancel ==
    /\ ssh_pc = "cancel"
    /\ ssh_timer' = IF ssh_timer = "waiting" THEN "cancelled" ELSE ssh_timer
    /\ ssh_pc' = "returned"
    /\ UNCHANGED <<ssh_blank, ssh_timeout, command_duration, ssh_clock, ssh_process,
                   timer_was_alive, ssh_stdout, ssh_stderr, late_kills>>
    /\ UNCHANGED notSshVars

NextSsh ==
    \/ run_ssh_command
    \/ ssh_second_passes
    \/ ssh_exits
    \/ timer_wakes
    \/ timer_kills
    \/ timer_thread_ends
    \/ communicate_returns
    \/ ssh_finally
    \/ timer_cancel

SpecSsh == InitSsh /\ [][NextSsh]_vars

\* ============================================================== claims
HasFlag(b) == SUCCESS_FLAG_FILE \in remote_files[b]
AllVolumesOffsite(b) == \A v \in Range(volume_path_list) : v \in remote_tars[b]

\* C1: in every reachable state of an upload, whatever the interleaving,
\* also when a volume fails and in resumed runs: when BACKUP_OK is on the
\* remote of a backup, V.tar is on the remote for every local volume V.
C1_FlagImpliesAllVolumes ==
    \A b \in Backups : HasFlag(b) => AllVolumesOffsite(b)

\* C2: whenever process_backup returns without raising, the remote holds
\* BACKUP_OK and V.tar for every local volume, and the remote volume-list
\* descriptor names exactly the local volumes.
C2_ReturnImpliesComplete ==
    pc = "returned" =>
        /\ HasFlag(cur)
        /\ AllVolumesOffsite(cur)
        /\ remote_vdesc[cur].present
        /\ Range(remote_vdesc[cur].content) = Range(volume_path_list)

\* C3: within one run BACKUP_OK is the last object written: no volume
\* archive, no metadata archive and no descriptor is transferred after it.
C3_FlagIsWrittenLast ==
    sent_after_ok = {}

\* C4: when process_backup of a backup succeeded and is run again at once on
\* the unchanged backup, the second run performs no Put of a .tar object and
\* leaves the remote directory as it was.
C4_RerunPutsNothing ==
    (rerun_of_ok /\ \A v \in Range(volume_path_list) : v \in remote_before.tars) =>
        /\ \A v \in Volumes : puts[v] = 0
        /\ meta_puts = 0
        /\ pc = "returned" => RemoteSnapshot(cur) = remote_before

\* The three groups of volumes a resumed run finds: V.tar on the remote,
\* V.tar in the temporary folder, the rest.
OnRemoteAtStart(v) == v \in remote_before.tars
InTmpAtStart(v) == ~ OnRemoteAtStart(v) /\ v \in tmp_before
RestAtStart(v) == ~ OnRemoteAtStart(v) /\ v \notin tmp_before
InCall == pc \in {"partition", "classify", "submit", "join_process", "join_transfer",
                  "check", "metadata", "file_descriptor", "volume_descriptor", "returned"}
PartialStart ==
    \E v \in Range(volume_path_list) : OnRemoteAtStart(v) \/ InTmpAtStart(v)

\* C5: a run of process_backup that starts from a partial state does no
\* Encode and no Put for the volumes whose V.tar is on the remote, no Encode
\* and one Put for those whose V.tar is in the temporary folder, one Encode
\* and then one Put for the rest; when it returns, the remote is what a
\* successful upload from a clean state leaves.
C5_ResumeFromPartialState ==
    (InCall /\ PartialStart) =>
        /\ \A v \in Range(volume_path_list) :
             /\ OnRemoteAtStart(v) => encodes[v] = 0 /\ puts[v] = 0
             /\ InTmpAtStart(v) => encodes[v] = 0 /\ puts[v] <= 1
             /\ RestAtStart(v) =>
                  /\ encodes[v] <= 1
                  /\ puts[v] <= 1
                  /\ puts[v] = 1 =>
                       /\ encodes[v] = 1
                       /\ task[v] \notin {"process_queued", "processing", "processed"}
        /\ pc = "returned" =>
             /\ \A v \in Range(volume_path_list) :
                  /\ InTmpAtStart(v) => puts[v] = 1
                  /\ RestAtStart(v) => encodes[v] = 1 /\ puts[v] = 1
             /\ remote_tars[cur] = Range(volume_path_list)
             /\ remote_vdesc[cur] = Descriptor(volume_path_list)

EncodeFailed(v) == volume_output[v].output = Message(v, "Error while processing volume.")
Submitted(v) == task[v] \in {"transfer_queued", "transferring", "transferred"}

\* C6: on_volume_ready submits an outcome with status true to the transfer
\* pool, once; an outcome with status false is recorded and not submitted:
\* there is no Put for a volume whose encode failed.
C6_OnlyEncodedVolumesAreSubmitted ==
    \A v \in Volumes :
        /\ EncodeFailed(v) =>
             /\ puts[v] = 0
             /\ task[v] \in {"processed", "finished"}
             /\ task[v] = "finished" =>
                  /\ v \in DOMAIN backup_output_dict
                  /\ backup_output_dict[v] = volume_output[v]
        /\ Submitted(v) => volume_output[v].status \/ task[v] = "transferred"
        /\ puts[v] <= 1
        /\ (encodes[v] = 1 /\ ~ EncodeFailed(v) /\ task[v] = "finished") => puts[v] = 1

\* One volume's encode failed and was recorded, the other was encoded and
\* put on the remote.
C6_Witness ==
    \E v, w \in Volumes :
        /\ EncodeFailed(v) /\ task[v] = "finished" /\ v \in DOMAIN backup_output_dict
        /\ encodes[w] = 1 /\ puts[w] = 1 /\ task[w] = "finished"
        /\ w \in remote_tars[cur]

Attempted(v) == class[v] = "transferred" \/ encodes[v] + puts[v] >= 1
Occurrences(list, x) == Cardinality({i \in DOMAIN list : list[i] = x})

\* C7: once both pools are joined, an outcome with status false makes
\* process_backup fail, once, after every volume was attempted, with the
\* messages of all failed volumes.
C7_FailedVolumesFailTheBackup ==
    /\ pc \in {"metadata", "file_descriptor", "volume_descriptor", "returned"} =>
         \A k \in DOMAIN backup_output_dict : backup_output_dict[k].status
    /\ raised_kind = "VolumeErrors" =>
         /\ raised_msgs # {}
         /\ raised_msgs = {backup_output_dict[k].output :
                             k \in {d \in DOMAIN backup_output_dict :
                                      ~ backup_output_dict[d].status}}
         /\ process_pool = "joined" /\ transfer_pool = "joined"
         /\ \A v \in Range(volume_path_list) : Attempted(v)
    /\ \A b \in Backups : Occurrences(backup_error_list, b) <= 1

\* Both volumes failed and the error carries both messages.
C7_Witness ==
    /\ raised_kind = "VolumeErrors"
    /\ Cardinality(raised_msgs) = 2
    /\ pc = "loop"

NoFlagOffsite == SUCCESS_FLAG_FILE \notin remote_files[tag]
PrepareErrors == {"NotEnoughFreeDiskSpace", "CannotCreatePath"}

AfterClassification ==
    dl_pc \in {"download", "join_transfer", "join_process", "metadata", "verify", "done"}
InDecodePool(v) ==
    dl_task[v] \in {"process_queued", "processing", "processed", "finished", "lost"}

C10_Classes ==
    \A v \in Volumes :
        /\ classified[v] <= 1
        /\ (AfterClassification /\ v \in Range(volume_name_list)) =>
             classified[v] = 1 /\ dl_class[v] \in {"done", "ready", "missing"}
        /\ dl_class[v] = "done" =>
             gets[v] = 0 /\ decodes[v] = 0 /\ dl_task[v] = "none" /\ v \notin dl_removed
        /\ dl_class[v] = "ready" => gets[v] = 0 /\ InDecodePool(v)
        /\ dl_class[v] = "missing" =>
             /\ gets[v] <= 1
             /\ decodes[v] >= 1 => gets[v] = 1
             /\ dl_pc \notin {"classify", "download"} => dl_task[v] # "none"
        /\ v \in dl_removed => dl_class[v] \in {"ready", "missing"}

C10_Step ==
    (dl_pc = "classify" /\ dl_vi' = dl_vi + 1) =>
        LET v == volume_name_list[dl_vi] IN
        /\ classified'[v] = classified[v] + 1
        /\ \A w \in Volumes \ {v} : classified'[w] = classified[w] /\ dl_class'[w] = dl_class[w]
        /\ local_dirs[v] = "valid" =>
             /\ dl_class'[v] = "done"
             /\ local_dirs'[v] = "valid"
             /\ dl_task'[v] = dl_task[v]
             /\ missing_volume_list' = missing_volume_list
        /\ local_dirs[v] = "invalid" => local_dirs'[v] = "none" /\ v \in dl_removed'
        /\ (local_dirs[v] # "valid" /\ v \in local_tars) =>
             /\ dl_class'[v] = "ready"
             /\ dl_task'[v] = "process_queued"
             /\ missing_volume_list' = missing_volume_list
        /\ (local_dirs[v] # "valid" /\ v \notin local_tars) =>
             /\ dl_class'[v] = "missing"
             /\ missing_volume_list' = Append(missing_volume_list, v)
             /\ dl_task'[v] = dl_task[v]

DlAttempted(v) == dl_class[v] = "done" \/ gets[v] + decodes[v] >= 1
DownloadProcessFailed == dl_pc = "failed" /\ dl_error = "DownloadProcessFailed"

C12_Failed ==
    /\ dl_pc = "done" => DlFailedVolumes = {}
    /\ DownloadProcessFailed =>
         /\ DlFailedVolumes # {}
         /\ dl_raised_msgs = {offsite_backup_output_dict[k].output : k \in DlFailedVolumes}
         /\ offsite_process_pool = "joined"
         /\ offsite_transfer_pool \in {"none", "joined"}
         /\ \A v \in Range(volume_name_list) : DlAttempted(v)

C12_Step ==
    /\ (dl_pc = "verify" /\ DlFailedVolumes # {}) => DownloadProcessFailed'
    /\ (DownloadProcessFailed' /\ ~ DownloadProcessFailed) => dl_pc = "verify"

C13_FileListNamesTheFlag ==
    (pc = "returned" /\ AllVolumesOffsite(cur) /\ HasFlag(cur)) =>
        /\ remote_fdesc[cur].present
        /\ SUCCESS_FLAG_FILE \in Range(remote_fdesc[cur].content)

Mismatch ==
    /\ invocations' = invocations + 1
    /\ rsync_error' \notin {"CalledProcessError", "CannotParseValue"}
    /\ n_transferred_files' # n_files

C15_Put ==
    method = "send" =>
        /\ invocations <= retry
        /\ rsync_pc = "returned" <=> matches >= 1
        /\ rsync_pc = "returned" => n_transferred_files = n_files
        /\ rsync_error = "ExceedTryOuts" =>
             /\ rsync_pc = "raised"
             /\ invocations = retry
             /\ n_transferred_files # n_files

C15_Step ==
    (rsync_pc = "send" /\ Mismatch) =>
        IF invocations' < retry
        THEN rsync_pc' = "send" /\ rsync_error' = "none"
        ELSE rsync_pc' = "raised" /\ rsync_error' = "ExceedTryOuts"

\* C15: send returns if and only if the number of files transferred by one
\* of its rsync runs equals the number of files of the source; after a
\* mismatch it runs rsync again, retry times at most in total, and after
\* the last mismatch it raises ExceedTryOuts.
C15_PutRetries ==
    []C15_Put /\ [][C15_Step]_vars

\* send returned at its last try, after NUMBER_TRIES - 1 mismatches.
C15_Witness ==
    /\ method = "send"
    /\ rsync_pc = "returned"
    /\ retry = NUMBER_TRIES
    /\ invocations = NUMBER_TRIES
    /\ matches = 1

\* C16: receive follows the retry rule of send: after a mismatch of the
\* number of files transferred with the number of files of the origin or
\* of the destination it runs rsync again, and it fails only when the
\* retry tries are used up.
C16_GetRetries ==
    (method = "receive" /\ rsync_error = "RsyncTransferNumberFilesDiffer") =>
        invocations = retry

\* ------------------------------------------------------ retention claims
NonEmptyBackups(c) == {t \in Tags : offsite_dirs[c][t] = "full"}
NonEmptyAtStart(c) == {t \in Tags : dirs_at_start[c][t] = "full"}
Queued(c) == {t \in Tags : <<c, t>> \in dir_to_be_removed_list}
CleanupReturned == cleanup_pc \in {"returned", "exited"} /\ cleanup_status # "raised"

\* C17: after a retention run that reports success every customer has at
\* most offsite_retention backup directories that are not empty.
C17_SuccessKeepsRetention ==
    (CleanupReturned /\ cleanup_status = "true") =>
        \A c \in customer_config_dict :
            Cardinality(NonEmptyBackups(c)) <= offsite_retention

\* The loop of get_backup_dir_list_to_cleanup is past customer c.
Visited(c) ==
    /\ c \in customer_config_dict
    /\ c \notin customers_to_visit
    /\ cleanup_pc \in {"listed", "remove", "returned", "exited"}
    /\ cleanup_status # "raised"

\* C18: for each customer no empty directory is queued, and when more than
\* offsite_retention backups are not empty the queue holds exactly the
\* backups past the retention whose oldest entry is oldest, so that the
\* offsite_retention newest are kept.
C18_QueueIsTheOldestNonEmpty ==
    \A c \in Customers :
        Visited(c) =>
            /\ Queued(c) \subseteq NonEmptyAtStart(c)
            /\ Cardinality(NonEmptyAtStart(c)) > offsite_retention =>
                 /\ Cardinality(Queued(c)) =
                        Cardinality(NonEmptyAtStart(c)) - offsite_retention
                 /\ \A t \in Queued(c), u \in NonEmptyAtStart(c) \ Queued(c) :
                        oldest_entry[t] < oldest_entry[u]

\* C19: a customer with at most offsite_retention backups that are not
\* empty keeps every directory it had when the run started.
C19_WithinRetentionNothingRemoved ==
    \A c \in customer_config_dict :
        (cleanup_pc # "idle" /\ Cardinality(NonEmptyAtStart(c)) <= offsite_retention) =>
            offsite_dirs[c] = dirs_at_start[c]

\* A run is over in which the directories of one customer were removed and
\* the other customer, within the retention, has a backup and an empty
\* directory.
C19_Witness ==
    /\ cleanup_pc = "exited"
    /\ offsite_dirs # dirs_at_start
    /\ \E c \in customer_config_dict :
         /\ Cardinality(NonEmptyAtStart(c)) <= offsite_retention
         /\ NonEmptyAtStart(c) # {}
         /\ \E t \in Tags : dirs_at_start[c][t] = "empty"

C21_Step ==
    \A b \in Backups :
        /\ remote_fdesc'[b] # remote_fdesc[b] =>
             /\ ~ remote_fdesc[b].present
             /\ remote_fdesc'[b] = Descriptor(processed_file_name_list)
        /\ remote_vdesc'[b] # remote_vdesc[b] =>
             /\ ~ remote_vdesc[b].present
             /\ remote_vdesc'[b] = Descriptor(volume_path_list)

C21_DescriptorsWrittenWhenAbsent == [][C21_Step]_vars


\* ------------------------------------------------------------ timer_delay
WatchdogIsSet == td_pc # "idle" /\ on_timeout_is_callable /\ max_delay # NoDelay

\* C22: a call that has run longer than max_delay had the on_timeout
\* function called, once; the call of that function changes nothing of the
\* decorated method, which does all its work, and the wrapper ends with
\* what the method ended with.
C22_Timeout ==
    /\ (WatchdogIsSet /\ clock > max_delay) => on_timeout_calls = 1
    /\ on_timeout_calls > 0 => (WatchdogIsSet /\ clock >= max_delay)
    /\ td_pc \in {"returned", "raised"} =>
         /\ method_done = method_duration
         /\ method_result \in MethodResults
         /\ wrapper_result = method_result
         /\ td_pc = "returned" <=> method_result = "returns"

C22_Step ==
    on_timeout_calls' # on_timeout_calls =>
        UNCHANGED <<td_pc, method_duration, method_done, method_result, wrapper_result>>

C22_WatchdogDoesNotEndTheUpload == []C22_Timeout /\ [][C22_Step]_vars

\* A call that ran longer than max_delay returned after the function was
\* called.
C22_Witness ==
    /\ td_pc = "returned"
    /\ on_timeout_calls = 1
    /\ max_delay # NoDelay
    /\ method_done > max_delay


DiskCheckPassed == pc = "disk" /\ pc' = "partition"
DiskCheckRefused == pc = "disk" /\ raised_kind' = "NotEnoughFreeDiskSpace"

\* Nothing of the backup was encoded or transferred in this call of
\* process_backup.
NothingDone ==
    /\ \A v \in Volumes : encodes[v] = 0 /\ puts[v] = 0
    /\ meta_puts = 0
    /\ ~ ok_sent

C25_StepAsStated ==
    (DiskCheckPassed \/ DiskCheckRefused) =>
        (DiskCheckPassed <=> free_disk_space_onsite' >= BackupSizeMB)

\* C25 as stated: process_backup goes on exactly when the free space on tmp
\* is greater than or equal to the size of the backup.
C25_ProceedsIffEnoughAsStated == [][C25_StepAsStated]_vars

C25_Step ==
    /\ (DiskCheckPassed \/ DiskCheckRefused) =>
         (DiskCheckPassed <=> free_disk_space_onsite' > BackupSizeMB)
    /\ DiskCheckRefused =>
         /\ pc' # "partition"
         /\ UNCHANGED fsVars
         /\ \A v \in Volumes : task'[v] = "none"

C25_Refused == raised_kind = "NotEnoughFreeDiskSpace" => NothingDone

\* C25, amended: process_backup goes on exactly when the free space on tmp
\* is greater than the size of the backup; otherwise it raises
\* NotEnoughFreeDiskSpace, and nothing of the backup is encoded or
\* transferred.
C25_ProceedsIffEnough == []C25_Refused /\ [][C25_Step]_vars

\* A backup was refused with exactly its size free on tmp.
C25_Witness ==
    /\ raised_kind = "NotEnoughFreeDiskSpace"
    /\ free_disk_space_onsite = BackupSizeMB


\* ------------------------------------------- removing the temporary folder
InErrorList(b) == \E i \in DOMAIN backup_error_list : backup_error_list[i] = b

\* The step of process_backup_list after process_backup returned.
C26_Step ==
    pc = "returned" /\ list_result' # "interrupted" =>
        /\ pc' = "loop"
        /\ bidx' = bidx + 1
        /\ backup_error_list' = backup_error_list
        /\ last_ok'[cur]
        /\ raised_kind' = "none"

C26_Logged ==
    /\ \A b \in remove_errors_logged : last_ok[b] /\ HasFlag(b) /\ ~ InErrorList(b)
    /\ (pc = "finished" /\ list_result \in {"ok", "errors"}) =>
         bidx = Len(local_backup_list) + 1
    /\ (pc = "finished" /\ list_result = "errors") => backup_error_list # <<>>

\* C26: when the temporary folder of a backup cannot be removed after
\* process_backup succeeded, the failure is only logged: the backup is not
\* entered in the error list and stays uploaded, and the loop goes on with
\* the next backup of the list.
C26_RemoveFailureIsOnlyLogged == []C26_Logged /\ [][C26_Step]_vars

\* The temporary folder of the first backup of two could not be removed;
\* the second was processed and the run ended without an error.
C26_Witness ==
    /\ pc = "finished"
    /\ list_result = "ok"
    /\ Len(local_backup_list) = 2
    /\ local_backup_list[1] \in remove_errors_logged
    /\ last_ok[local_backup_list[1]]
    /\ last_ok[local_backup_list[2]]


\* -------------------------------------------------- writes of the outcomes
\* Two callbacks are running at the same time.
TwoCallbacks == \E c, d \in callbacks : c # d

\* The write of an entry is under way in two callbacks at the same time.
TwoWrites == \E c, d \in callbacks : c # d /\ c.at = "setitem" /\ d.at = "setitem"

\* An entry of backup_output_dict changes only in the write of a callback
\* to the entry of its own volume.
C27_WrittenByCallbacks ==
    \A v \in Volumes :
        cb_output_dict'[v] # cb_output_dict[v] =>
            \E c \in callbacks : c.volume = v /\ c.at = "setitem" /\ c \notin callbacks'

\* C27 as stated: backup_output_dict is written only from the callbacks of
\* the pools, and no two callbacks, hence no two writes, are under way at
\* the same time.
C27_SequentialAsStated == [](~ TwoCallbacks /\ ~ TwoWrites) /\ [][C27_WrittenByCallbacks]_vars

C27_PerPool ==
    /\ \A c, d \in callbacks : c # d => (c.pool # d.pool /\ c.volume # d.volume)
    /\ \A v \in Volumes : cb_writes[v] <= 1
    /\ cb_main = "checked" => callbacks = {}

\* C27, amended: backup_output_dict is written only from the callbacks of
\* the pools; the callbacks of one pool run one after the other, a callback
\* of the process pool and one of the transfer pool can run at the same
\* time, and then they write the entries of different volumes; every entry
\* is written at most once, and no callback is running when
\* check_backup_output_errors reads the dictionary.
C27_SequentialPerPool == []C27_PerPool /\ [][C27_WrittenByCallbacks]_vars

\* on_volume_ready is writing the entry of a failed volume while
\* on_volume_transferred is writing the entry of another volume.
C27_Witness ==
    /\ TwoWrites
    /\ \E c \in callbacks : c.pool = "process" /\ cb_stage[c.volume] = "failed"


\* ------------------------------------------------ the archive after Decode
\* OffsiteBackupHandler.process_volume returns for volume v.
DecodeReturns(v) == dl_task[v] = "processing" /\ dl_task'[v] = "processed"

C28_StepAsStated == \A v \in Volumes : DecodeReturns(v) => v \in local_tars'

\* C28 as stated: process_volume of the download does not remove the
\* archive it decodes, V.tar is still there when it returns.
C28_ArchiveKeptAsStated == [][C28_StepAsStated]_vars

C28_Step ==
    \A v \in Volumes : DecodeReturns(v) =>
        /\ v \in local_tars
        /\ dl_volume_output'[v].status => (v \in local_tars' <=> v \in tar_not_removed')
        /\ v \in local_tars' => (~ dl_volume_output'[v].status \/ v \in tar_not_removed')
        /\ \A w \in Volumes \ {v} : w \in local_tars' <=> w \in local_tars

\* C28, amended: process_volume of the download removes the archive it
\* decodes as soon as it is extracted: when it returns with success V.tar
\* is gone, unless the removal failed, which it ignores; V.tar is still
\* there when the extraction failed; the archives of the other volumes are
\* left alone.
C28_ArchiveRemovedOnceExtracted == [][C28_Step]_vars

\* A volume was decoded with success and its archive is gone.
C28_Witness ==
    \E v \in Volumes :
        /\ dl_task[v] = "processed"
        /\ dl_volume_output[v].status
        /\ v \notin local_tars
        /\ local_dirs[v] = "valid"


\* ------------------------------------------------- the sort of the folders
\* The folders of the argument that hold an entry.
NonEmptyFolders ==
    {remote_folder_list[i] : i \in DOMAIN remote_folder_list} \ 
        {f \in Folders : folder_content[f] = NoEntry}

\* C29: sort_remote_folders_by_content returns exactly the folders of its
\* argument that are not empty, each once, the one with the newest oldest
\* entry first; empty folders are not in the result.
C29_SortedNonEmptyFolders ==
    (sort_pc = "done" /\ ~ sort_raised) =>
        /\ Len(sorted_folder_list) = Cardinality(NonEmptyFolders)
        /\ \A f \in NonEmptyFolders : \E i \in DOMAIN sorted_folder_list :
               sorted_folder_list[i] = <<f>>
        /\ \A i \in DOMAIN sorted_folder_list : \E f \in NonEmptyFolders :
               sorted_folder_list[i] = <<f>>
        /\ \A i, j \in DOMAIN sorted_folder_list :
               i < j => folder_content[sorted_folder_list[i][1]].stamp
                          >= folder_content[sorted_folder_list[j][1]].stamp


\* --------------------------------------------------- the on-site backups
ValidBackups == {e \in Entries : entry_kind[e] = "valid"}

\* The loop of process_backup_list has gone through its whole list.
ListDone == list_pc = "returned" \/ list_raised = "ProcessBackupListErrors"

\* C30: without a backup tag process_backup_list goes through exactly the
\* valid backups of the customer, each once, from the oldest to the newest
\* modification time.
C30_ValidBackupsOldestFirst ==
    tag_argument = 0 =>
        /\ \A i, j \in DOMAIN processed_backups :
               i < j => /\ processed_backups[i] # processed_backups[j]
                        /\ entry_mtime[processed_backups[i]]
                             <= entry_mtime[processed_backups[j]]
        /\ \A i \in DOMAIN processed_backups : processed_backups[i] \in ValidBackups
        /\ ListDone => \A e \in ValidBackups : InList(e, processed_backups)
        /\ list_pc = "loop" =>
             \A e \in ValidBackups : InList(e, valid_onsite_backups_list)

\* Three valid backups that the listing gives newest first were processed
\* oldest first.
C30_Witness ==
    /\ list_pc = "returned"
    /\ tag_argument = 0
    /\ Len(processed_backups) = NumEntries
    /\ entry_mtime[customer_tags[1]] > entry_mtime[customer_tags[NumEntries]]
    /\ processed_backups[1] = customer_tags[NumEntries]

\* ------------------------------------------- the upload of several customers
\* The run went through execute_backup_upload and ended there.
UploadEnded ==
    /\ main_pc = "exited"
    /\ script_option = SCRIPT_OPERATIONS("BKP_UPLOAD")
    /\ ended_by \in {"success", "failed upload", "failed retention"}

\* C40: in an upload over several customers the driver attempts every
\* configured customer, whether the upload or the retention of one of them
\* failed, and only then exits; the exit code is non-zero exactly when a
\* customer failed.
C40_EveryCustomerIsAttempted ==
    UploadEnded =>
        /\ customers_left = 0
        /\ sys_exit # SUCCESS_EXIT_CODE <=> ~ is_success

\* ------------------------------------------ the volumes of one backup
TransferFailed(v) ==
    /\ v \in DOMAIN backup_output_dict
    /\ backup_output_dict[v].output = Message(v, "Error while transferring volume.")

\* The task of volume v ends in this step, in a worker of one of the pools.
WorkerEnds(v) ==
    /\ pc' = pc
    /\ \/ task[v] = "processing" /\ task'[v] \in {"processed", "lost"}
       \/ task[v] = "transferring" /\ task'[v] \in {"transferred", "lost"}

\* However the task of one volume ends, the tasks of the other volumes stay
\* as they are.
C31_Step ==
    \A v \in Volumes : WorkerEnds(v) => \A w \in Volumes \ {v} : task'[w] = task[w]

\* When both pools are joined every volume that was to be processed has been
\* encoded, and put unless its own encode failed; every volume found
\* encoded has been put.
C31_AllAttempted ==
    pc = "check" =>
        \A v \in Range(volume_path_list) :
            /\ class[v] \in {"pending", "unfinished"} =>
                 /\ encodes[v] = 1
                 /\ puts[v] = 1 \/ EncodeFailed(v) \/ task[v] = "lost"
            /\ class[v] = "processed" => puts[v] = 1

\* C31: a failure while encoding or transferring one volume never aborts its
\* peers: every other pending or processed volume of the same backup is
\* still encoded and transferred in the same run.
C31_FailureDoesNotAbortPeers == []C31_AllAttempted /\ [][C31_Step]_vars

\* The transfer of a volume that was encoded in this run failed, and the
\* volume found encoded in the temporary folder is on the remote.
C31_Witness ==
    /\ pc = "check"
    /\ \E v, w \in Volumes :
         /\ class[v] = "pending" /\ encodes[v] = 1 /\ TransferFailed(v)
         /\ class[w] = "processed" /\ puts[w] = 1 /\ w \in remote_tars[cur]

\* The transfer task of volume v ends in this step without V.tar on the
\* remote.
PutFailed(v) ==
    /\ task[v] = "transferring"
    /\ task'[v] \in {"transferred", "lost"}
    /\ v \notin remote_tars'[cur]

C32_Step ==
    /\ \A b \in Backups, v \in Volumes :
         (v \in tmp_tars[b] /\ v \notin tmp_tars'[b]) => v \in remote_tars'[b]
    /\ \A v \in Volumes : PutFailed(v) => v \in tmp_tars'[cur]
    /\ \A v \in Volumes :
         (pc = "classify" /\ class'[v] # class[v]
            /\ v \in tmp_tars[cur] /\ v \notin remote_tars[cur]) => class'[v] = "processed"

\* C32: V.tar is removed from the temporary folder only once V.tar is on the
\* remote; after a failed Put V.tar is still in the temporary folder, and a
\* run that finds it there and not on the remote classifies V as processed.
C32_TarRemovedOnlyAfterPut == [][C32_Step]_vars

\* Volume v is submitted to the process pool, respectively a worker of the
\* pool starts on it, in this step.
EncodeSubmitted(v) == task[v] # "process_queued" /\ task'[v] = "process_queued"
EncodeStarts(v) == task[v] = "process_queued" /\ task'[v] = "processing"

\* C33: whenever Encode of a volume V starts, its temporary folder exists
\* and is empty: a folder V left in the temporary folder by an earlier run
\* has been removed before V is submitted to the process pool.
C33_Step ==
    \A v \in Volumes :
        /\ EncodeSubmitted(v) => v \notin tmp_dirs[cur]
        /\ EncodeStarts(v) => v \notin tmp_dirs[cur] /\ v \in tmp_dirs'[cur]

C33_EncodeStartsInEmptyFolder == [][C33_Step]_vars

\* process_backup is at, or past, its outcome check.
AfterJoins == pc \in {"check", "metadata", "file_descriptor", "volume_descriptor", "returned"}

\* C34: when the outcome check of process_backup runs, and from then on,
\* every volume classified processed or pending in this run has an entry in
\* backup_output_dict: no worker that ended abnormally leaves a volume
\* without an outcome while the backup passes as successful.
C34_EveryVolumeHasAnOutcome ==
    AfterJoins =>
        \A v \in Range(volume_path_list) :
            class[v] \in {"processed", "pending", "unfinished"} =>
                v \in DOMAIN backup_output_dict

\* A worker of the transfer pool starts the Put of V.tar in this step.
PutStarts(v) == puts'[v] = puts[v] + 1

\* C35: every V.tar that is Put on the remote is a whole archive written by
\* an Encode that ended with status true: a part of V.tar left in the
\* temporary folder by a run that was stopped while the archive was written
\* is not uploaded by a later run as an already processed volume.
C35_Step ==
    \A v \in Volumes : PutStarts(v) => tmp_tar_content[cur][v] = "archive"

C35_OnlyWholeArchivesArePut == [][C35_Step]_vars

\* C36: no task is submitted to a pool that has been closed.  In an upload
\* a volume enters the queue of the transfer pool only while that pool is
\* open, and once it is closed no encode is left whose callback has still
\* to submit; in a download the same holds for the volumes fetched and the
\* process pool.
SubmittedToTransfer(v) == task[v] # "transfer_queued" /\ task'[v] = "transfer_queued"
SubmittedToDecode(v) == dl_task[v] # "process_queued" /\ dl_task'[v] = "process_queued"
C36_Step ==
    \A v \in Volumes :
        /\ SubmittedToTransfer(v) => transfer_pool = "open"
        /\ SubmittedToDecode(v) => offsite_process_pool = "open"
C36_NoneLeftToSubmit ==
    /\ transfer_pool \in {"closed", "joined"} =>
         \A v \in Volumes : task[v] \notin {"process_queued", "processing", "processed"}
    /\ offsite_process_pool \in {"closed", "joined"} =>
         \A v \in Volumes : dl_task[v] \notin {"download_queued", "downloading", "downloaded"}
C36_NoSubmissionAfterClose == []C36_NoneLeftToSubmit /\ [][C36_Step]_vars
C36_Witness ==
    /\ transfer_pool = "closed"
    /\ \E v \in Volumes : encodes[v] > 0 /\ task[v] = "transfer_queued"
C36_WitnessDownload ==
    /\ offsite_process_pool = "closed"
    /\ \E v \in Volumes : gets[v] > 0 /\ dl_task[v] = "process_queued"

\* C37: no pool outlives the run of the backup that created it.  Whenever
\* process_backup is not running (it returned or an exception left it) the
\* process pool and the transfer pool it created are joined, and whenever
\* download_process_backup is not running its two pools are joined.
OutsideProcessBackup == pc \in {"idle", "loop", "returned", "finished"}
OutsideDownloadProcessBackup == dl_pc \in {"idle", "done", "failed"}
C37_UploadPoolsJoined ==
    OutsideProcessBackup =>
        process_pool \in {"none", "joined"} /\ transfer_pool \in {"none", "joined"}
C37_DownloadPoolsJoined ==
    OutsideDownloadProcessBackup =>
        /\ offsite_process_pool \in {"none", "joined"}
        /\ offsite_transfer_pool \in {"none", "joined"}
C37_NoPoolOutlivesItsRun == C37_UploadPoolsJoined /\ C37_DownloadPoolsJoined

\* C38: a download resolves the requested tag only to a backup directory
\* of a selected customer whose name is the tag; when no backup of the
\* selected customers has that name the call fails with NoSuchBackupTag and
\* download_process_backup is not called.
IsBackupOfSelected(path) ==
    \E c \in get_values_from_dict(customer_name_query) :
        \E k \in DOMAIN offsite_listing[c] : path = BackupDirPath(c, offsite_listing[c][k])
TagIsNamed ==
    \E c \in get_values_from_dict(customer_name_query) :
        \E k \in DOMAIN offsite_listing[c] : offsite_listing[c][k] = backup_tag_query
C38_ResolvesOnlyTheNamedBackup ==
    /\ resolve_pc = "downloading" =>
         /\ IsBackupOfSelected(backup_path_to_be_retrieved)
         /\ Basename(backup_path_to_be_retrieved) = backup_tag_query
    /\ (resolve_pc # "idle" /\ backup_tag_query # <<>> /\ listing_answered
          /\ get_values_from_dict(customer_name_query) # {} /\ ~ TagIsNamed) =>
         resolve_pc = "failed" /\ resolve_error = "NoSuchBackupTag"

\* C39: a call of run_ssh_command that kills ssh reports the timeout in the
\* stderr it returns, and a command that takes longer than the timeout is
\* killed; a command that ends before the timeout is never killed, its
\* Timer is cancelled and its own stdout and stderr are returned.
C39_TimeoutIsReported ==
    (ssh_pc = "returned" /\ ~ ssh_blank) =>
        /\ ssh_process = "killed" => ssh_stderr = "timeout"
        /\ command_duration > ssh_timeout => ssh_process = "killed"
C39_EarlyCommandIsReturned ==
    (~ ssh_blank /\ command_duration < ssh_timeout) =>
        /\ late_kills = 0
        /\ ssh_process # "killed"
        /\ ssh_pc = "returned" =>
             /\ ssh_stdout = "command" /\ ssh_stderr = "command"
             /\ ssh_timer \in {"cancelled", "dead"}
C39_SshTimeout == C39_TimeoutIsReported /\ C39_EarlyCommandIsReturned

====
